---- MODULE Spec2Model ----
(***************************************************************************)
(* Verification model of the football betting bot's prediction engine:     *)
(* the ELO rating store and its batch replay (elo_calculator.py), the      *)
(* window queries of the form and team-statistics engines, the feature     *)
(* aggregator (feature_engine.py) and the predictors with their ensemble   *)
(* (models/).                                                              *)
(*                                                                         *)
(* Numbers.  Python floats are modelled as binary floating-point numbers   *)
(* of reduced precision: a value is an integer count of 2^-FracBits and    *)
(* every arithmetic result is rounded (to nearest, ties to even) to        *)
(* MantBits significant bits, as IEEE-754 does with 53.                    *)
(***************************************************************************)
EXTENDS Integers, Sequences, FiniteSets, TLC

\* ------------------------------------------------------------------ bounds
FracBits == 16
MantBits == 12
NumTeams == 3
MaxDate == 2
MaxMatches == 2
MaxOps == 2

\* ------------------------------------------------------- program constants
DEFAULT_ELO_PTS == 1500
K_FACTOR_PTS == 20
HOME_ADVANTAGE_PTS == 100
ELO_DIVISOR == 400

NULL == -1
\* ------------------------------------------------- floating-point numbers
RECURSIVE Pow2(_)
Pow2(n) == IF n <= 0 THEN 1 ELSE 2 * Pow2(n - 1)

RECURSIVE BitLen(_)
BitLen(x) == IF x <= 0 THEN 0 ELSE 1 + BitLen(x \div 2)

Abs(x) == IF x < 0 THEN -x ELSE x

Max(a, b) == IF a >= b THEN a ELSE b

Min(a, b) == IF a <= b THEN a ELSE b

Unit == Pow2(FracBits)

\* The spacing of representable numbers around x.
Quantum(x) == Pow2(Max(0, BitLen(Abs(x)) - MantBits))

\* x >= 0 rounded to a multiple of q, to nearest, ties to the even multiple.
RoundToPos(x, q) ==
    LET lo == (x \div q) * q
        r == x - lo
    IN  IF 2 * r < q THEN lo
        ELSE IF 2 * r > q THEN lo + q
        ELSE IF (x \div q) % 2 = 0 THEN lo ELSE lo + q

RoundTo(x, q) == IF x < 0 THEN -RoundToPos(-x, q) ELSE RoundToPos(x, q)

\* The float nearest to the real number x.
Fl(x) == RoundTo(x, Quantum(x))

FAdd(a, b) == Fl(a + b)

FSub(a, b) == Fl(a - b)

\* A float is mant * 2^exp with mant odd (or 0).
RECURSIVE TrailingZeros(_)
TrailingZeros(x) == IF x = 0 \/ x % 2 = 1 THEN 0 ELSE 1 + TrailingZeros(x \div 2)

\* a * b: the exact product of the two mantissas, rounded once.
FMul(a, b) ==
    LET sgn == IF (a < 0) = (b < 0) THEN 1 ELSE -1
        ea == TrailingZeros(Abs(a))
        eb == TrailingZeros(Abs(b))
        p == (Abs(a) \div Pow2(ea)) * (Abs(b) \div Pow2(eb))
        e == ea + eb - FracBits
    IN  IF e >= 0 THEN sgn * Fl(p) * Pow2(e)
        ELSE sgn * (RoundToPos(p, Max(Quantum(p), Pow2(-e))) \div Pow2(-e))

\* Binary long division: n more quotient bits of r / b after the quotient q.
RECURSIVE DivBits(_, _, _, _)
DivBits(r, b, n, q) ==
    IF n = 0 THEN <<q, r>>
    ELSE IF 2 * r >= b THEN DivBits(2 * r - b, b, n - 1, 2 * q + 1)
    ELSE DivBits(2 * r, b, n - 1, 2 * q)

\* a / b for a >= 0, b > 0: the quotient with two guard bits and a sticky bit,
\* rounded once.
FDiv(a, b) ==
    LET d == DivBits(a % b, b, FracBits + 2, a \div b)
        sticky == IF d[2] = 0 THEN 0 ELSE 1
    IN  RoundToPos(2 * d[1] + sticky, 8 * Quantum(d[1] \div 4)) \div 8

FromInt(n) == n * Unit

\* The float literal n / 10.
Tenths(n) == FDiv(FromInt(n), FromInt(10))

\* The float literal n / 100.
Hundredths(n) == FDiv(FromInt(n), FromInt(100))

Half == Unit \div 2

TwoAndAHalf == 5 * Half

\* ---------------------------------------------------------------- tables
\* 10^(i/16) for i = 0..16, in 1024ths: the values math.pow(10, x) takes at
\* the sixteenths of a decade; between them the model interpolates linearly.
PowScale == 1024
Pow10Tab == <<1024, 1182, 1366, 1577, 1821, 2103, 2428, 2804, 3238, 3739,
              4318, 4987, 5758, 6650, 7679, 8867, 10240>>

RECURSIVE Pow10Int(_)
Pow10Int(n) == IF n <= 0 THEN 1 ELSE 10 * Pow10Int(n - 1)

\* The largest rating difference the table covers, in points (4 decades).
MaxDiffPts == 4 * ELO_DIVISOR

\* 10^(x / 400) in 1024ths, for a rating difference x >= 0 in units.
Pow10Of(x) ==
    LET sixteenth == Unit \div 16
        t == Min(x \div sixteenth, 16 * MaxDiffPts)        \* in 1/16 point
        step == ELO_DIVISOR                                  \* 25 points, in 1/16 point
        j == t \div step
        f == t % step
        i == j % 16
        lo == Pow10Tab[i + 1]
        hi == Pow10Tab[i + 2]
    IN  (lo + ((hi - lo) * f) \div step) * Pow10Int(j \div 16)

RoundDiv(a, b) == (2 * a + b) \div (2 * b)

\* 1.0 / (1.0 + math.pow(10, d / 400.0)) for a rating difference d in units.
Logistic(d) ==
    LET v == RoundDiv(PowScale * Unit, PowScale + Pow10Of(Abs(d)))
    IN  Fl(IF d >= 0 THEN v ELSE Unit - v)

RECURSIVE SqrtSearch(_, _, _)
SqrtSearch(n, lo, hi) ==
    IF lo >= hi THEN lo
    ELSE LET mid == (lo + hi + 1) \div 2
         IN  IF mid * mid <= n THEN SqrtSearch(n, mid, hi)
             ELSE SqrtSearch(n, lo, mid - 1)

\* math.sqrt(n) for a small integer n, as a float.
FSqrtInt(n) == Fl(SqrtSearch(n * Pow2(24), 0, 16 * 4096) * Pow2(FracBits - 12))

\* ------------------------------------------------------------ ELOCalculator
DEFAULT_ELO == FromInt(DEFAULT_ELO_PTS)
k_factor == FromInt(K_FACTOR_PTS)
home_advantage == FromInt(HOME_ADVANTAGE_PTS)
goal_importance == Unit

\* ELOCalculator.__init__: the tuning parameters of an instance.
ELOCalculator(k, advantage, importance) ==
    [k_factor |-> k, home_advantage |-> advantage, goal_importance |-> importance]

\* ELOCalculator(): every parameter at its default.
DefaultCalculator == ELOCalculator(k_factor, home_advantage, goal_importance)

calculate_expected_score(self, team_elo, opponent_elo, is_home) ==
    LET team == IF is_home THEN FAdd(team_elo, self.home_advantage) ELSE team_elo
        elo_diff == FSub(opponent_elo, team)
    IN  Logistic(elo_diff)

ActualScoreDrawAsLoss(team_goals, opponent_goals) ==
    IF team_goals > opponent_goals THEN Unit ELSE 0

calculate_actual_score(team_goals, opponent_goals) ==
    IF team_goals > opponent_goals THEN Unit
    ELSE IF team_goals = opponent_goals THEN Half
    ELSE 0

UncappedMultiplier(self, goal_difference) ==
    IF goal_difference <= 1 THEN Unit
    ELSE FAdd(Unit, FMul(FMul(FSqrtInt(goal_difference - 1), self.goal_importance), Half))

calculate_goal_difference_multiplier(self, goal_difference) ==
    IF goal_difference <= 1 THEN Unit
    ELSE LET multiplier ==
                 FAdd(Unit, FMul(FMul(FSqrtInt(goal_difference - 1), self.goal_importance), Half))
         IN  Min(multiplier, TwoAndAHalf)

AwayScoreNotComplemented(home_score) == home_score

\* away_expected = 1.0 - home_expected; away_actual = 1.0 - home_actual
AwayScore(home_score) == FSub(Unit, home_score)

update_elo(self, home_elo, away_elo, home_goals, away_goals, k_override) ==
    LET k == IF k_override = NULL THEN self.k_factor ELSE k_override
        home_expected == calculate_expected_score(self, home_elo, away_elo, TRUE)
        away_expected == AwayScore(home_expected)
        home_actual == calculate_actual_score(home_goals, away_goals)
        away_actual == AwayScore(home_actual)
        goal_diff == Abs(home_goals - away_goals)
        gd_multiplier == calculate_goal_difference_multiplier(self, goal_diff)
        home_change == FMul(FMul(k, gd_multiplier), FSub(home_actual, home_expected))
        away_change == FMul(FMul(k, gd_multiplier), FSub(away_actual, away_expected))
    IN  [home |-> FAdd(home_elo, home_change),
         away |-> FAdd(away_elo, away_change),
         home_change |-> home_change,
         away_change |-> away_change,
         home_expected |-> home_expected]

\* ------------------------------------------------------------------- state
VARIABLES
    matches,    \* the matches table: a set of Match rows
    elo,        \* Team.current_elo of every team row
    lastOp,     \* the rating operation that ran last, and how it ended
    runBase,    \* the ratings the last operation started from (after its reset)
    runOrder,   \* the rows the last operation's query returned, in that order
    runLog,     \* the updates the last operation applied, in the order applied
    skipped,    \* the rows the last operation skipped
    maxDate,    \* the latest match date reflected in elo since the last reset
    stale,      \* whether an update was applied after a later-dated one
    resetRuns,  \* the table and the outcome of every replay from reset so far
    nOps,       \* rating operations run so far
    now,        \* datetime.now(), in days
    window,     \* the last window query: its arguments and the rows it returned
    sourceState,    \* how each feature source answers the next call
    features,       \* what the last get_match_features call returned
    ensemble,       \* the ensemble's weights and combination method
    prediction,     \* what the last prediction call returned to its caller
    call            \* the last call of a function that keeps no state: arguments and result

eloVars == <<matches, elo, lastOp, runBase, runOrder, runLog, skipped, maxDate, stale,
             resetRuns, nOps>>

formVars == <<now, window>>

featVars == <<sourceState, features>>

predVars == <<ensemble, prediction>>

callVars == <<call>>

vars == <<eloVars, formVars, featVars, predVars, callVars>>

NoCall == [fn |-> "none", args |-> <<>>, done |-> FALSE, result |-> <<>>]

\* A call that has been made with these arguments and has not returned yet.
Pending(fn, args) == [fn |-> fn, args |-> args, done |-> FALSE, result |-> <<>>]

\* The call returns this result.
Return(result) == [call EXCEPT !.done = TRUE, !.result = result]

HasReturned(fn) == call.fn = fn /\ call.done

CallIdle == call = NoCall

TeamIds == 1 .. NumTeams

\* A team id no row of the teams table carries.
UnknownTeam == NumTeams + 1

Dates == 1 .. MaxDate

Scores == {<<0, 1>>, <<1, 1>>, <<3, 0>>}

\* The pairings played: team 2 meets both others, team 1 and team 3 never meet.
Fixtures == {f \in TeamIds \X TeamIds : f[1] + 1 = f[2]}

MatchRow(d, h, a, hg, ag, st) ==
    [date |-> d, home |-> h, away |-> a, home_goals |-> hg, away_goals |-> ag, status |-> st]

\* The rows data ingestion can insert: finished matches with their score, and
\* the incomplete records the match history provider may deliver.
CompleteRows ==
    {MatchRow(d, f[1], f[2], g[1], g[2], "FINISHED") : d \in Dates, f \in Fixtures, g \in Scores}

IncompleteRows ==
    UNION {{MatchRow(d, UnknownTeam, 1, 1, 0, "FINISHED"),
            MatchRow(d, 2, UnknownTeam, 0, 1, "FINISHED"),
            MatchRow(d, 1, 2, NULL, 1, "FINISHED"),
            MatchRow(d, 2, 1, 1, NULL, "FINISHED"),
            MatchRow(d, 1, 2, NULL, NULL, "SCHEDULED")} : d \in Dates}

MatchRows == CompleteRows \cup IncompleteRows

AllDefault == [t \in TeamIds |-> DEFAULT_ELO]

\* Ratings a teams table can hold when the engine starts: fresh rows, or
\* ratings stored earlier (the 1450 and 1850 of update_elo's docstring).
StoredRatings ==
    [t \in TeamIds |-> IF t = 1 THEN FromInt(1450) ELSE IF t = 2 THEN FromInt(1850) ELSE DEFAULT_ELO]

InitialRatings == {AllDefault, StoredRatings}

NoOp == [kind |-> "none", reset |-> FALSE, status |-> "ok"]

EloInit ==
    /\ matches = {}
    /\ elo \in InitialRatings
    /\ lastOp = NoOp
    /\ runBase = elo
    /\ runOrder = <<>>
    /\ runLog = <<>>
    /\ skipped = <<>>
    /\ maxDate = 0
    /\ stale = FALSE
    /\ resetRuns = <<>>
    /\ nOps = 0

\* ------------------------------------------------------ batch replay query
IsOrdering(s, S) ==
    /\ \A i, j \in DOMAIN s : i # j => s[i] # s[j]
    /\ \A x \in S : \E i \in DOMAIN s : s[i] = x

\* Every order in which the rows of S may be listed.
Listings(S) == {s \in [1 .. Cardinality(S) -> S] : IsOrdering(s, S)}

QueryWithoutOrderBy(S) == Listings(S)

\* query.order_by(Match.date).all(): ascending by date; the order of rows
\* that share a date is left to the database.
OrderByDate(S) ==
    {s \in Listings(S) : \A i, j \in DOMAIN s : i < j => s[i].date <= s[j].date}

\* session.query(Match).filter(Match.status == 'FINISHED')
FinishedMatches == {m \in matches : m.status = "FINISHED"}

\* ------------------------------------------------------ batch replay loop
MissingTeam(m) == m.home \notin TeamIds \/ m.away \notin TeamIds

NeverSkipped(m) == FALSE

\* match.home_goals is None or match.away_goals is None
MissingScore(m) == m.home_goals = NULL \/ m.away_goals = NULL

LogEntry(m, ratings, r) ==
    [m |-> m, read_home |-> ratings[m.home], read_away |-> ratings[m.away],
     home_change |-> r.home_change, away_change |-> r.away_change,
     new_home |-> r.home, new_away |-> r.away]

\* session.commit() of one applied update r of row m.
ApplyUpdate(st, m, r) ==
    [st EXCEPT !.elo = [@ EXCEPT ![m.home] = r.home, ![m.away] = r.away],
               !.log = Append(@, LogEntry(m, st.elo, r))]

\* One pass of the loop body over row m; st is the session so far.
ProcessMatch(st, m) ==
    IF MissingTeam(m) THEN [st EXCEPT !.skipped = Append(@, m)]
    ELSE IF MissingScore(m) THEN [st EXCEPT !.skipped = Append(@, m)]
    ELSE IF m.home_goals = NULL \/ m.away_goals = NULL
         THEN [st EXCEPT !.raised = TRUE]      \* TypeError comparing None
    ELSE ApplyUpdate(st, m, update_elo(DefaultCalculator, st.elo[m.home], st.elo[m.away],
                                       m.home_goals, m.away_goals, NULL))

RECURSIVE ReplayLoop(_, _, _)
ReplayLoop(order, i, st) ==
    IF i > Len(order) \/ st.raised THEN st
    ELSE ReplayLoop(order, i + 1, ProcessMatch(st, order[i]))

Session(ratings) == [elo |-> ratings, log |-> <<>>, skipped |-> <<>>, raised |-> FALSE]

\* The history of the dates applied: (latest date, applied out of order).
RECURSIVE DateTrack(_, _, _, _)
DateTrack(log, i, latest, outOfOrder) ==
    IF i > Len(log) THEN <<latest, outOfOrder>>
    ELSE DateTrack(log, i + 1, Max(latest, log[i].m.date),
                   outOfOrder \/ log[i].m.date < latest)

\* The ratings the replay starts from: reset to default and committed, or as stored.
ReplayBase(reset) == IF reset THEN AllDefault ELSE elo

\* ELOCalculator.calculate_historical_elos(reset_elos = reset)
calculate_historical_elos(reset) ==
    /\ nOps < MaxOps
    /\ \E order \in OrderByDate(FinishedMatches) :
       \E out \in {ReplayLoop(order, 1, Session(ReplayBase(reset)))} :
       \E track \in {DateTrack(out.log, 1, IF reset THEN 0 ELSE maxDate,
                                IF reset THEN FALSE ELSE stale)} :
         \* an exception rolls back to the last commit and is raised again
         /\ elo' = IF out.raised THEN ReplayBase(reset) ELSE out.elo
         /\ lastOp' = [kind |-> "replay", reset |-> reset,
                       status |-> IF out.raised THEN "raised" ELSE "ok"]
         /\ runBase' = ReplayBase(reset)
         /\ runOrder' = order
         /\ runLog' = out.log
         /\ skipped' = out.skipped
         /\ maxDate' = track[1]
         /\ stale' = track[2]
         /\ resetRuns' = IF reset THEN Append(resetRuns, [db |-> matches, elo |-> elo'])
                                 ELSE resetRuns
    /\ nOps' = nOps + 1
    /\ UNCHANGED <<matches, formVars, featVars, predVars, callVars>>

\* update_match_elos(match_id): the row of that id, if the table holds it.
update_match_elos(m) ==
    /\ nOps < MaxOps
    /\ \E returns \in {\/ m \notin matches
                        \/ m.status # "FINISHED"
                        \/ MissingScore(m)
                        \/ MissingTeam(m)} :
       \E st \in {IF returns THEN Session(elo) ELSE ProcessMatch(Session(elo), m)} :
       \E track \in {DateTrack(st.log, 1, maxDate, stale)} :
         /\ elo' = st.elo
         /\ lastOp' = [kind |-> "single", reset |-> FALSE, status |-> "ok"]
         /\ runBase' = elo
         /\ runOrder' = IF m \in matches THEN <<m>> ELSE <<>>
         /\ runLog' = st.log
         /\ skipped' = IF returns /\ m \in matches THEN <<m>> ELSE <<>>
         /\ maxDate' = track[1]
         /\ stale' = track[2]
    /\ nOps' = nOps + 1
    /\ UNCHANGED <<matches, resetRuns, formVars, featVars, predVars, callVars>>

\* DataAggregator._create_match: a new row joins the matches table.
AddMatch(m) ==
    /\ Cardinality(matches) < MaxMatches
    /\ m \notin matches
    /\ matches' = matches \cup {m}
    /\ UNCHANGED <<elo, lastOp, runBase, runOrder, runLog, skipped, maxDate, stale,
                   resetRuns, nOps, formVars, featVars, predVars, callVars>>

\* The match ids a caller passes: every stored row, and one id not stored.
RequestedMatches == matches \cup {CHOOSE m \in MatchRows : m \notin matches}

\* ------------------------------------------------------- rating properties
AfterReplay == lastOp.kind = "replay"

\* The rating of team t found by the i-th update of the last operation: what
\* the latest earlier update of t left, or what the operation started from.
RECURSIVE RatingBefore(_, _)
RatingBefore(i, t) ==
    IF i <= 1 THEN runBase[t]
    ELSE LET e == runLog[i - 1]
         IN  IF e.m.home = t THEN e.new_home
             ELSE IF e.m.away = t THEN e.new_away
             ELSE RatingBefore(i - 1, t)

\* C1: within one batch replay the updates are applied in non-decreasing order
\* of match date, and each update reads, for both its teams, the rating left by
\* the updates applied before it in the run (or the run's starting rating).
ReplayAppliesInDateOrder ==
    AfterReplay =>
        /\ \A i, j \in DOMAIN runLog : i < j => runLog[i].m.date <= runLog[j].m.date
        /\ \A i \in DOMAIN runLog :
             /\ runLog[i].read_home = RatingBefore(i, runLog[i].m.home)
             /\ runLog[i].read_away = RatingBefore(i, runLog[i].m.away)

\* A replay applied two matches of different dates, the later one reading a
\* rating the earlier one produced.
ReplayChainedTwoDates ==
    /\ AfterReplay
    /\ Len(runLog) = 2
    /\ runLog[1].m.date < runLog[2].m.date
    /\ runLog[2].read_home = runLog[1].new_away
    /\ runLog[2].read_home # runBase[runLog[2].m.home]

\* C2: over the lifetime of the stored ratings, whatever replays and single
\* updates run, no update is applied whose match date is earlier than the date
\* of a match the stored ratings already reflect.
NoUpdateAfterLaterMatch == ~stale

\* C3: two replays from reset over the same matches table end with the same
\* rating for every team, also when several matches carry the same date.
ResetReplayIsDeterministic ==
    \A i, j \in DOMAIN resetRuns :
        resetRuns[i].db = resetRuns[j].db => resetRuns[i].elo = resetRuns[j].elo

HasData(m) == ~MissingTeam(m) /\ m.home_goals # NULL /\ m.away_goals # NULL

LacksData(m) == ~HasData(m)

\* The ratings after applying update_elo to each row of seq in turn.
RECURSIVE ApplyAll(_, _, _)
ApplyAll(seq, i, ratings) ==
    IF i > Len(seq) THEN ratings
    ELSE LET m == seq[i]
             r == update_elo(DefaultCalculator, ratings[m.home], ratings[m.away],
                             m.home_goals, m.away_goals, NULL)
         IN  ApplyAll(seq, i + 1, [ratings EXCEPT ![m.home] = r.home, ![m.away] = r.away])

\* C4: a replay skips every row with an unknown home or away team or a null
\* home or away score: the replay completes without raising, exactly those
\* rows are skipped, and the ratings it leaves are those of applying all the
\* other rows in their order.
ReplaySkipsIncompleteRows ==
    AfterReplay =>
        /\ lastOp.status = "ok"
        /\ skipped = SelectSeq(runOrder, LacksData)
        /\ [i \in DOMAIN runLog |-> runLog[i].m] = SelectSeq(runOrder, HasData)
        /\ elo = ApplyAll(SelectSeq(runOrder, HasData), 1, runBase)

\* A replay skipped a row listed before a row it applied.
ReplaySkippedThenApplied ==
    /\ AfterReplay
    /\ Len(runOrder) = 2
    /\ LacksData(runOrder[1])
    /\ Len(runLog) = 1
    /\ runLog[1].m = runOrder[2]
    /\ elo # runBase

RECURSIVE SumRatings(_, _)
SumRatings(ratings, n) == IF n = 0 THEN 0 ELSE ratings[n] + SumRatings(ratings, n - 1)

\* The spacing of the floats just above 1.0.
UlpOfOne == Unit \div Pow2(MantBits - 1)

\* The spacing of the floats a rating below 2048 points is stored in.
RatingUlp == Quantum(FromInt(2047))

\* Rounding error a pair of changes can carry: the two score differences are
\* each rounded near 1.0 and scaled by at most k * 2.5.
ChangeTolerance == (5 * K_FACTOR_PTS * UlpOfOne) \div 2

\* C5 as stated: each update changes one side by the exact negative of the
\* other, the sum of the ratings is unchanged by the operation, and after a
\* replay from reset the ratings sum to 1500 per team.
UpdatesExactlyZeroSum ==
    /\ \A i \in DOMAIN runLog : runLog[i].home_change + runLog[i].away_change = 0
    /\ SumRatings(elo, NumTeams) = SumRatings(runBase, NumTeams)
    /\ (AfterReplay /\ lastOp.reset) => SumRatings(elo, NumTeams) = NumTeams * DEFAULT_ELO

\* C5: each update is zero-sum up to floating-point rounding: the two changes
\* cancel within ChangeTolerance, the sum of the ratings moves by no more than
\* that plus one rating spacing per applied update, and after a replay from
\* reset the mean rating is within that distance of 1500.
UpdatesZeroSumWithinRounding ==
    /\ \A i \in DOMAIN runLog :
         Abs(runLog[i].home_change + runLog[i].away_change) <= ChangeTolerance
    /\ Abs(SumRatings(elo, NumTeams) - SumRatings(runBase, NumTeams))
         <= Len(runLog) * (ChangeTolerance + RatingUlp)
    /\ (AfterReplay /\ lastOp.reset) =>
         Abs(SumRatings(elo, NumTeams) - NumTeams * DEFAULT_ELO)
           <= Len(runLog) * (ChangeTolerance + RatingUlp)

\* A replay from reset applied two updates that moved ratings.
ResetReplayMovedRatings ==
    /\ AfterReplay
    /\ lastOp.reset
    /\ Len(runLog) = 2
    /\ \A i \in DOMAIN runLog : runLog[i].home_change # 0 /\ runLog[i].away_change # 0
    /\ elo # AllDefault

\* ---------------------------------------------------------- window queries
\* before_date = None
NoDate == 0

\* FormCalculator.lookback_games
FORM_LOOKBACK_GAMES == 5

\* TeamFeatures.lookback_days
LOOKBACK_DAYS == 90

Venues == {"both", "home", "away"}

NoWindow == [kind |-> "none", team |-> 0, before_date |-> NoDate, asked_at |-> 0, rows |-> <<>>]

FormIdle == now = MaxDate + 1 /\ window = NoWindow

\* Match.status == 'FINISHED' and the team played, at the venue asked for.
TeamMatches(team_id, venue) ==
    {m \in matches :
        /\ m.status = "FINISHED"
        /\ m.home = team_id \/ m.away = team_id
        /\ venue = "home" => m.home = team_id
        /\ venue = "away" => m.away = team_id}

\* order_by(Match.date.desc())
NewestFirst(S) ==
    {s \in Listings(S) : \A i, j \in DOMAIN s : i < j => s[i].date >= s[j].date}

Limit(s, n) == SubSeq(s, 1, Min(Len(s), n))

\* FormCalculator.get_recent_matches(team_id, before_date, is_home, limit)
get_recent_matches(team_id, before_date, venue) ==
    /\ \E s \in NewestFirst({m \in TeamMatches(team_id, venue) :
                               before_date # NoDate => m.date < before_date}) :
         window' = [kind |-> "form", team |-> team_id, before_date |-> before_date,
                    asked_at |-> now, rows |-> Limit(s, FORM_LOOKBACK_GAMES)]
    /\ UNCHANGED <<now, eloVars, featVars, predVars, callVars>>

\* TeamFeatures.get_team_matches(team_id, venue, before_date)
get_team_matches(team_id, before_date, venue) ==
    /\ \E s \in NewestFirst({m \in TeamMatches(team_id, venue) :
                               IF before_date # NoDate
                               THEN m.date < before_date /\ m.date >= before_date - LOOKBACK_DAYS
                               ELSE m.date >= now - LOOKBACK_DAYS}) :
         window' = [kind |-> "strength", team |-> team_id, before_date |-> before_date,
                    asked_at |-> now, rows |-> s]
    /\ UNCHANGED <<now, eloVars, featVars, predVars, callVars>>

\* A day passes.
Tick ==
    /\ now <= MaxDate
    /\ now' = now + 1
    /\ UNCHANGED <<window, eloVars, featVars, predVars, callVars>>

\* -------------------------------------------------------------- form engine
\* FormCalculator.exponential_decay
EXPONENTIAL_DECAY == Tenths(9)

\* The windows get_recent_matches can return for a call: the database picks
\* the order of rows that share a date.
RecentMatches(team_id, before_date, venue) ==
    {Limit(s, FORM_LOOKBACK_GAMES) :
        s \in NewestFirst({m \in TeamMatches(team_id, venue) :
                             before_date # NoDate => m.date < before_date})}

\* An exception leaves the function.
Raises(exception) == [exception |-> exception]

HasRaised(result) == "exception" \in DOMAIN result

\* FormCalculator.calculate_match_result
calculate_match_result(match, team_id) ==
    LET goals_for == IF match.home = team_id THEN match.home_goals ELSE match.away_goals
        goals_against == IF match.home = team_id THEN match.away_goals ELSE match.home_goals
    IN  IF goals_for > goals_against
        THEN [result |-> "W", goals_for |-> goals_for, goals_against |-> goals_against, points |-> 3]
        ELSE IF goals_for = goals_against
        THEN [result |-> "D", goals_for |-> goals_for, goals_against |-> goals_against, points |-> 1]
        ELSE [result |-> "L", goals_for |-> goals_for, goals_against |-> goals_against, points |-> 0]

\* math.pow(self.exponential_decay, i)
RECURSIVE DecayWeight(_)
DecayWeight(i) == IF i = 0 THEN Unit ELSE FMul(DecayWeight(i - 1), EXPONENTIAL_DECAY)

\* sum(...) of integers.
RECURSIVE SumInts(_, _)
SumInts(xs, n) == IF n = 0 THEN 0 ELSE SumInts(xs, n - 1) + xs[n]

SumOver(xs, Term(_)) == SumInts([i \in DOMAIN xs |-> Term(xs[i])], Len(xs))

RECURSIVE WeightedPoints(_, _, _)
WeightedPoints(matches_, team_id, n) ==
    IF n = 0 THEN 0
    ELSE FAdd(WeightedPoints(matches_, team_id, n - 1),
              FMul(FromInt(calculate_match_result(matches_[n], team_id).points),
                   DecayWeight(n - 1)))

Count(xs, Test(_)) == Cardinality({i \in DOMAIN xs : Test(xs[i])})

\* The oldest matches of the window taken for its newest.
OldestAsRecent(matches_, mid) == SubSeq(matches_, Len(matches_) - mid + 1, Len(matches_))

\* matches[:mid] of a window listed newest first.
recent_matches(matches_, mid) == SubSeq(matches_, 1, mid)

\* FormCalculator._calculate_momentum
calculate_momentum(matches_, team_id) ==
    IF Len(matches_) < 4 THEN "neutral"
    ELSE LET mid == Len(matches_) \div 2
             pts(m) == calculate_match_result(m, team_id).points
             recent == recent_matches(matches_, mid)
             older == SubSeq(matches_, mid + 1, Len(matches_))
             recent_ppg == FDiv(FromInt(SumOver(recent, pts)), FromInt(Len(recent)))
             older_ppg == FDiv(FromInt(SumOver(older, pts)), FromInt(Len(older)))
         IN  IF recent_ppg > FAdd(older_ppg, Half) THEN "positive"
             ELSE IF recent_ppg < FSub(older_ppg, Half) THEN "negative"
             ELSE "neutral"

\* FormCalculator._empty_form
empty_form ==
    [games_played |-> 0, points |-> 0, points_per_game |-> 0, wins |-> 0, draws |-> 0,
     losses |-> 0, win_rate |-> 0, goals_for |-> 0, goals_against |-> 0,
     goals_for_per_game |-> 0, goals_against_per_game |-> 0, goal_difference |-> 0,
     weighted_points |-> 0, form_string |-> <<>>, momentum |-> "neutral",
     clean_sheets |-> 0, failed_to_score |-> 0]

\* A row whose score is None: comparing its goals raises TypeError.
ScoreMissing(m) == m.home_goals = NULL \/ m.away_goals = NULL

\* FormCalculator.calculate_team_form on the window its query returned.
TeamForm(matches_, team_id) ==
    IF matches_ = <<>> THEN empty_form
    ELSE IF \E i \in DOMAIN matches_ : ScoreMissing(matches_[i]) THEN Raises("TypeError")
    ELSE LET res(m) == calculate_match_result(m, team_id)
             games_played == Len(matches_)
             points == SumOver(matches_, LAMBDA m : res(m).points)
             goals_for == SumOver(matches_, LAMBDA m : res(m).goals_for)
             goals_against == SumOver(matches_, LAMBDA m : res(m).goals_against)
             wins == Count(matches_, LAMBDA m : res(m).result = "W")
         IN  [games_played |-> games_played,
              points |-> points,
              points_per_game |-> FDiv(FromInt(points), FromInt(games_played)),
              wins |-> wins,
              draws |-> Count(matches_, LAMBDA m : res(m).result = "D"),
              losses |-> Count(matches_, LAMBDA m : res(m).result = "L"),
              win_rate |-> FDiv(FromInt(wins), FromInt(games_played)),
              goals_for |-> goals_for,
              goals_against |-> goals_against,
              goals_for_per_game |-> FDiv(FromInt(goals_for), FromInt(games_played)),
              goals_against_per_game |-> FDiv(FromInt(goals_against), FromInt(games_played)),
              goal_difference |-> goals_for - goals_against,
              weighted_points |-> WeightedPoints(matches_, team_id, games_played),
              form_string |-> [i \in DOMAIN matches_ |-> res(matches_[i]).result],
              momentum |-> calculate_momentum(matches_, team_id),
              clean_sheets |-> Count(matches_, LAMBDA m : res(m).goals_against = 0),
              failed_to_score |-> Count(matches_, LAMBDA m : res(m).goals_for = 0)]

\* FormCalculator.calculate_team_form(team_id, before_date, is_home)
calculate_team_form(team_id, before_date, venue) ==
    /\ \E rows \in RecentMatches(team_id, before_date, venue) :
         /\ window' = [kind |-> "form", team |-> team_id, before_date |-> before_date,
                       asked_at |-> now, rows |-> rows]
         /\ call' = [fn |-> "calculate_team_form",
                     args |-> [team_id |-> team_id, before_date |-> before_date, venue |-> venue],
                     done |-> TRUE, result |-> TeamForm(rows, team_id)]
    /\ UNCHANGED <<now, eloVars, featVars, predVars>>

\* FormCalculator.calculate_match_form_features on the four forms computed.
MatchFormFeatures(home_form_all, away_form_all, home_form_venue, away_form_venue) ==
    LET momentum_map(m) == IF m = "positive" THEN 1 ELSE IF m = "negative" THEN -1 ELSE 0
    IN  [home_form_all |-> home_form_all, away_form_all |-> away_form_all,
         home_form_venue |-> home_form_venue, away_form_venue |-> away_form_venue,
         form_differential |->
             FSub(home_form_venue.points_per_game, away_form_venue.points_per_game),
         momentum_differential |->
             momentum_map(home_form_venue.momentum) - momentum_map(away_form_venue.momentum),
         goals_for_differential |->
             FSub(home_form_venue.goals_for_per_game, away_form_venue.goals_for_per_game),
         goals_against_differential |->
             FSub(home_form_venue.goals_against_per_game,
                  away_form_venue.goals_against_per_game),
         home_form_string |-> home_form_venue.form_string,
         away_form_string |-> away_form_venue.form_string]

\* RecentFormCalculator._empty_features (the keys modelled)
empty_features ==
    [home_form_ppg |-> 3 * Half, away_form_ppg |-> 3 * Half, form_differential |-> 0,
     home_form_string |-> <<>>, away_form_string |-> <<>>,
     home_momentum |-> "neutral", away_momentum |-> "neutral", momentum_differential |-> 0,
     home_goals_for_form |-> Unit, away_goals_for_form |-> Unit,
     home_win_rate_form |-> Hundredths(33), away_win_rate_form |-> Hundredths(33),
     games_analysed |-> FORM_LOOKBACK_GAMES, home_games_played |-> 0, away_games_played |-> 0]

\* RecentFormCalculator.calculate_match_form, try body: the points, string,
\* momentum, goals, win-rate and sample-size keys of the returned dict.
MatchForm(match_form) ==
    LET home_form == match_form.home_form_venue
        away_form == match_form.away_form_venue
    IN  [home_form_ppg |-> home_form.points_per_game,
         away_form_ppg |-> away_form.points_per_game,
         form_differential |-> match_form.form_differential,
         home_form_string |-> home_form.form_string,
         away_form_string |-> away_form.form_string,
         home_momentum |-> home_form.momentum, away_momentum |-> away_form.momentum,
         momentum_differential |-> match_form.momentum_differential,
         home_goals_for_form |-> home_form.goals_for_per_game,
         away_goals_for_form |-> away_form.goals_for_per_game,
         home_win_rate_form |-> home_form.win_rate, away_win_rate_form |-> away_form.win_rate,
         games_analysed |-> FORM_LOOKBACK_GAMES,
         home_games_played |-> home_form.games_played,
         away_games_played |-> away_form.games_played]

\* The window of the last query calculate_match_form_features made: the
\* first form that raises ends the call.
LastQuery(home_team_id, away_team_id, forms, windows) ==
    IF HasRaised(forms[1]) THEN [team |-> home_team_id, rows |-> windows[1]]
    ELSE IF HasRaised(forms[2]) THEN [team |-> away_team_id, rows |-> windows[2]]
    ELSE IF HasRaised(forms[3]) THEN [team |-> home_team_id, rows |-> windows[3]]
    ELSE [team |-> away_team_id, rows |-> windows[4]]

\* RecentFormCalculator.calculate_match_form(home_team_id, away_team_id, match_date)
calculate_match_form(home_team_id, away_team_id, match_date) ==
    /\ \E home_all \in RecentMatches(home_team_id, match_date, "both"),
          away_all \in RecentMatches(away_team_id, match_date, "both"),
          home_venue \in RecentMatches(home_team_id, match_date, "home"),
          away_venue \in RecentMatches(away_team_id, match_date, "away") :
         \E forms \in {<<TeamForm(home_all, home_team_id), TeamForm(away_all, away_team_id),
                         TeamForm(home_venue, home_team_id),
                         TeamForm(away_venue, away_team_id)>>} :
           \E last \in {LastQuery(home_team_id, away_team_id, forms,
                                  <<home_all, away_all, home_venue, away_venue>>)} :
             /\ window' = [kind |-> "form", team |-> last.team, before_date |-> match_date,
                           asked_at |-> now, rows |-> last.rows]
             /\ call' = [fn |-> "calculate_match_form",
                         args |-> [home_team_id |-> home_team_id,
                                   away_team_id |-> away_team_id, match_date |-> match_date],
                         done |-> TRUE,
                         result |-> IF \E i \in 1 .. 4 : HasRaised(forms[i])
                                    THEN empty_features       \* except Exception
                                    ELSE MatchForm(MatchFormFeatures(forms[1], forms[2],
                                                                     forms[3], forms[4]))]
    /\ UNCHANGED <<now, eloVars, featVars, predVars>>

\* -------------------------------------------------------- feature aggregator
Sources == {"elo", "form", "team_stats", "h2h", "rivalry", "importance", "timing"}

\* A source answers with data, answers without data (its own empty result:
\* team not found, nothing played, a failure it swallowed), or raises.
SourceStates == {"ok", "empty", "raises"}

DateKinds == {"string", "datetime", "malformed"}

NoFeatures == [status |-> "none", home |-> 0, away |-> 0, date |-> "string", values |-> <<>>]

AllSourcesOk == [s \in Sources |-> "ok"]

FeatIdle == sourceState = AllSourcesOk /\ features = NoFeatures

\* dict.get(key, default)
Get(d, key, default) == IF key \in DOMAIN d THEN d[key] ELSE default

\* dict.update(other)
Update(d, other) ==
    [key \in DOMAIN d \cup DOMAIN other |-> IF key \in DOMAIN other THEN other[key] ELSE d[key]]

\* The keyword arguments get_match_features passes to each source's method.
PassedArgs(s) ==
    CASE s = "elo" -> {"team_id"}
      [] s = "form" -> {"team_id", "as_of_date"}
      [] s = "team_stats" -> {"home_team_id", "away_team_id", "match_date"}
      [] s = "h2h" -> {"home_team_id", "away_team_id", "as_of_date"}
      [] s = "rivalry" -> {"home_team_id", "away_team_id"}
      [] s = "importance" -> {"home_team_id", "away_team_id", "match_date"}
      [] OTHER -> {"match_date"}

\* The parameters each source's method declares, and those without a default.
DeclaredParams(s) ==
    CASE s = "elo" -> {"team_id"}
      [] s = "form" -> {"team_id", "before_date", "is_home"}
      [] s = "team_stats" -> {"home_team_id", "away_team_id", "match_date"}
      [] s = "h2h" -> {"home_team_id", "away_team_id"}
      [] s = "rivalry" -> {"home_team_id", "away_team_id"}
      [] s = "importance" -> {"home_team_id", "away_team_id", "match_date"}
      [] OTHER -> {"home_team_id", "away_team_id", "match_date"}

RequiredParams(s) == DeclaredParams(s) \ {"before_date", "is_home", "match_date"}

\* Python raises TypeError on an unexpected or a missing argument.
CallAccepted(s) == PassedArgs(s) \subseteq DeclaredParams(s) /\ RequiredParams(s) \subseteq PassedArgs(s)

\* The call of source s raises: the call itself is rejected, or the source raises.
\* TeamStatisticsCalculator catches whatever is raised inside it.
SubCallRaises(s) ==
    \/ ~CallAccepted(s)
    \/ sourceState[s] = "raises" /\ s # "team_stats"

HasResult(s) == sourceState[s] = "ok"

\* ELOCalculator.get_team_elo(team_id)
get_team_elo(team_id) == IF HasResult("elo") THEN elo[team_id] ELSE DEFAULT_ELO

\* The dict each source returns when its call goes through.
SourceResult(s, home, away) ==
    CASE s = "form" ->
           IF HasResult(s) THEN [points |-> 10, points_per_game |-> 2 * Unit]
           ELSE [points |-> 0, points_per_game |-> 0]
      [] s = "team_stats" ->
           IF HasResult(s)
           THEN [home_attack_strength |-> Unit + Half, home_defence_strength |-> Half,
                 away_attack_strength |-> Half, away_defence_strength |-> Unit + Half,
                 home_goals_for_pg |-> 2 * Unit, home_goals_against_pg |-> Half,
                 away_goals_for_pg |-> Half, away_goals_against_pg |-> 2 * Unit]
           ELSE [home_attack_strength |-> Unit, home_defence_strength |-> Unit,
                 away_attack_strength |-> Unit, away_defence_strength |-> Unit,
                 home_goals_for_pg |-> Unit + Half, home_goals_against_pg |-> Unit + Half,
                 away_goals_for_pg |-> Unit + Half, away_goals_against_pg |-> Unit + Half]
      [] s = "h2h" ->
           IF HasResult(s)
           THEN [matches_played |-> 8, home_wins |-> 4, away_wins |-> 2, draws |-> 2,
                 home_goals_avg |-> 2 * Unit, away_goals_avg |-> Unit, total_goals_avg |-> 3 * Unit]
           ELSE [matches_played |-> 0, home_wins |-> 0, away_wins |-> 0, draws |-> 0,
                 home_goals_avg |-> 0, away_goals_avg |-> 0, total_goals_avg |-> 0]
      [] s = "rivalry" ->
           IF HasResult(s)
           THEN [is_derby |-> TRUE, is_rivalry |-> TRUE, rivalry_intensity |-> 9, rivalry_type |-> "derby"]
           ELSE [is_derby |-> FALSE, is_rivalry |-> FALSE, rivalry_intensity |-> 0, rivalry_type |-> "none"]
      [] s = "importance" ->
           IF HasResult(s)
           THEN [importance_score |-> 8 * Unit, high_stakes |-> TRUE]
           ELSE [importance_score |-> 5 * Unit, high_stakes |-> FALSE]
      [] OTHER ->
           IF HasResult(s)
           THEN [season_stage |-> "run_in", matches_into_season |-> 31, end_of_season |-> TRUE]
           ELSE [season_stage |-> "mid", matches_into_season |-> 0, end_of_season |-> FALSE]

\* The values each except clause substitutes.
Defaults(s) ==
    CASE s = "elo" ->
           [home_elo |-> DEFAULT_ELO, away_elo |-> DEFAULT_ELO, elo_diff |-> 0, elo_diff_abs |-> 0]
      [] s = "form" ->
           [home_form_points |-> 0, away_form_points |-> 0, home_form_home_points |-> 0,
            away_form_away_points |-> 0, form_diff |-> 0]
      [] s = "team_stats" ->
           [home_attack_strength |-> Unit, home_defence_strength |-> Unit,
            away_attack_strength |-> Unit, away_defence_strength |-> Unit,
            home_goals_for_avg |-> 0, home_goals_against_avg |-> 0,
            away_goals_for_avg |-> 0, away_goals_against_avg |-> 0]
      [] s = "h2h" ->
           [h2h_matches_played |-> 0, h2h_home_wins |-> 0, h2h_away_wins |-> 0, h2h_draws |-> 0,
            h2h_home_goals_avg |-> 0, h2h_away_goals_avg |-> 0, h2h_total_goals_avg |-> 0]
      [] s = "rivalry" ->
           [is_rivalry |-> FALSE, is_derby |-> FALSE, rivalry_type |-> "none"]
      [] s = "importance" ->
           [home_importance |-> 0, away_importance |-> 0, match_importance |-> 0]
      [] OTHER ->
           [season_phase |-> "unknown", games_played |-> 0, games_remaining |-> 0,
            is_congested_period |-> FALSE]

\* The body of each try clause: the features built from the source's answer.
Computed(s, home, away) ==
    CASE s = "elo" ->
           [home_elo |-> get_team_elo(home), away_elo |-> get_team_elo(away),
            elo_diff |-> FSub(get_team_elo(home), get_team_elo(away)),
            elo_diff_abs |-> Abs(FSub(get_team_elo(home), get_team_elo(away)))]
      [] s = "form" ->
           [home_form_points |-> Get(SourceResult(s, home, away), "points", 0),
            away_form_points |-> Get(SourceResult(s, away, home), "points", 0),
            home_form_home_points |-> Get(SourceResult(s, home, away), "home_points", 0),
            away_form_away_points |-> Get(SourceResult(s, away, home), "away_points", 0),
            form_diff |-> Get(SourceResult(s, home, away), "points", 0)
                            - Get(SourceResult(s, away, home), "points", 0)]
      [] s = "team_stats" ->
           [home_attack_strength |-> Get(SourceResult(s, home, away), "home_attack_strength", Unit),
            home_defence_strength |-> Get(SourceResult(s, home, away), "home_defence_strength", Unit),
            away_attack_strength |-> Get(SourceResult(s, home, away), "away_attack_strength", Unit),
            away_defence_strength |-> Get(SourceResult(s, home, away), "away_defence_strength", Unit),
            home_goals_for_avg |-> Get(SourceResult(s, home, away), "home_goals_for_avg", 0),
            home_goals_against_avg |-> Get(SourceResult(s, home, away), "home_goals_against_avg", 0),
            away_goals_for_avg |-> Get(SourceResult(s, home, away), "away_goals_for_avg", 0),
            away_goals_against_avg |-> Get(SourceResult(s, home, away), "away_goals_against_avg", 0)]
      [] s = "h2h" ->
           [h2h_matches_played |-> Get(SourceResult(s, home, away), "matches_played", 0),
            h2h_home_wins |-> Get(SourceResult(s, home, away), "home_wins", 0),
            h2h_away_wins |-> Get(SourceResult(s, home, away), "away_wins", 0),
            h2h_draws |-> Get(SourceResult(s, home, away), "draws", 0),
            h2h_home_goals_avg |-> Get(SourceResult(s, home, away), "home_goals_avg", 0),
            h2h_away_goals_avg |-> Get(SourceResult(s, home, away), "away_goals_avg", 0),
            h2h_total_goals_avg |-> Get(SourceResult(s, home, away), "total_goals_avg", 0)]
      [] s = "rivalry" ->
           [is_rivalry |-> Get(SourceResult(s, home, away), "is_rivalry", FALSE),
            is_derby |-> Get(SourceResult(s, home, away), "is_derby", FALSE),
            rivalry_type |-> Get(SourceResult(s, home, away), "rivalry_type", "none")]
      [] s = "importance" ->
           [home_importance |-> Get(SourceResult(s, home, away), "home_importance", 0),
            away_importance |-> Get(SourceResult(s, home, away), "away_importance", 0),
            match_importance |-> Get(SourceResult(s, home, away), "match_importance", 0)]
      [] OTHER ->
           [season_phase |-> Get(SourceResult(s, home, away), "phase", "unknown"),
            games_played |-> Get(SourceResult(s, home, away), "games_played", 0),
            games_remaining |-> Get(SourceResult(s, home, away), "games_remaining", 0),
            is_congested_period |-> Get(SourceResult(s, home, away), "is_congested", FALSE)]

\* One try/except block of get_match_features.
FeatureBlock(s, home, away) ==
    IF SubCallRaises(s) THEN Defaults(s) ELSE Computed(s, home, away)

\* The blocks in the order get_match_features runs them.
BlockOrder == <<"elo", "form", "team_stats", "h2h", "rivalry", "importance", "timing">>

RECURSIVE RunBlocks(_, _, _, _)
RunBlocks(i, home, away, collected) ==
    IF i > Len(BlockOrder) THEN collected
    ELSE RunBlocks(i + 1, home, away, Update(collected, FeatureBlock(BlockOrder[i], home, away)))

\* FeatureEngine.get_match_features(home_team_id, away_team_id, match_date)
get_match_features(home, away, date) ==
    /\ features' =
         IF date = "malformed"      \* strptime raises ValueError before the first block
         THEN [status |-> "raised", home |-> home, away |-> away, date |-> date, values |-> <<>>]
         ELSE [status |-> "ok", home |-> home, away |-> away, date |-> date,
               values |-> RunBlocks(1, home, away, <<>>)]
    /\ UNCHANGED <<sourceState, eloVars, formVars, predVars, callVars>>

\* A source starts to answer differently; the next call is a new query.
SetSource(s, st) ==
    /\ sourceState[s] # st
    /\ sourceState' = [sourceState EXCEPT ![s] = st]
    /\ features' = NoFeatures
    /\ UNCHANGED <<eloVars, formVars, predVars, callVars>>

\* ------------------------------------------------------ market predictors
\* Members of the ensemble.
NumModels == 2

ModelIds == 1 .. NumModels

\* How a predictor fares on a query: it computes its prediction, something
\* inside its try block raises, or its predict call itself raises.
Modes == {"ok", "fails", "raises"}

\* The keys that end in '_prob'.
ProbFields ==
    {"btts_yes_prob", "btts_no_prob", "home_scoring_prob", "away_scoring_prob",
     "over_prob", "under_prob", "home_clean_sheet_prob", "away_clean_sheet_prob",
     "home_win_prob", "draw_prob", "away_win_prob", "over_25_prob", "under_25_prob", "btts_prob"}

Raised == [raised |-> TRUE, value |-> <<>>]

Returned(d) == [raised |-> FALSE, value |-> d]

\* What ensemble member i computes for the fixture when its features arrive.
BTTSComputed(i) ==
    [btts_yes_prob |-> Tenths(i + 5), btts_no_prob |-> FSub(Unit, Tenths(i + 5)),
     home_scoring_prob |-> Tenths(8), away_scoring_prob |-> Tenths(i + 6),
     confidence |-> Tenths(10 - i)]

\* BTTSModel._get_default_prediction
BTTSDefault ==
    [btts_yes_prob |-> Half, btts_no_prob |-> Half,
     home_scoring_prob |-> Tenths(7), away_scoring_prob |-> Tenths(7),
     confidence |-> 0, error |-> "Prediction failed - using defaults"]

\* BaseModel.validate_inputs: returns whether the ids and the date are usable.
validate_inputs(valid) == valid

\* BTTSModel.predict of ensemble member i.
BTTSPredict(i, mode, valid) ==
    IF mode = "raises" THEN Raised
    ELSE IF ~validate_inputs(valid) THEN Returned(BTTSDefault)
    ELSE IF mode = "fails" THEN Returned(BTTSDefault)      \* except Exception
    ELSE Returned(BTTSComputed(i))

\* ------------------------------------------------------------------ ensemble
Methods == {"weighted_average", "simple_average", "voting", "max_confidence"}

\* weights = None: [1.0 / len(models)] * len(models)
EqualWeights(n) == [i \in 1 .. n |-> FDiv(Unit, FromInt(n))]

\* Weights passed by the caller: 0.6 for the first member, 0.4 shared by the rest.
SkewedWeights == [i \in ModelIds |-> IF i = 1 THEN Tenths(6) ELSE FDiv(Tenths(4), FromInt(NumModels - 1))]

\* Weights passed by the caller: everything on the first member.
SoleWeights == [i \in ModelIds |-> IF i = 1 THEN Unit ELSE 0]

EnsembleConfigs ==
    [weights : {EqualWeights(NumModels), SkewedWeights, SoleWeights}, method : Methods]

NoPrediction == [caller |-> "none", modes |-> <<>>, valid |-> TRUE, raised |-> FALSE, result |-> <<>>]

PredIdle == ensemble = [weights |-> EqualWeights(NumModels), method |-> "weighted_average"]
            /\ prediction = NoPrediction

\* sum(xs): Python adds left to right, starting from 0.
RECURSIVE SumSeq(_, _)
SumSeq(xs, n) == IF n = 0 THEN 0 ELSE FAdd(SumSeq(xs, n - 1), xs[n])

\* np.mean(xs)
Mean(xs) == FDiv(SumSeq(xs, Len(xs)), FromInt(Len(xs)))

\* range(n) as positions 1 .. n.
Indices(n) == [i \in 1 .. n |-> i]

prob_fields(predictions) ==
    UNION {DOMAIN predictions[i] \cap ProbFields : i \in DOMAIN predictions}

\* One probability field of _weighted_average.
AverageField(field, predictions, weights) ==
    LET with == SelectSeq(Indices(Len(predictions)), LAMBDA i : field \in DOMAIN predictions[i])
        total == SumSeq([j \in DOMAIN with |-> weights[with[j]]], Len(with))
    IN  SumSeq([j \in DOMAIN with |->
                  FMul(predictions[with[j]][field], FDiv(weights[with[j]], total))], Len(with))

MeanConfidence(predictions) ==
    Mean([i \in DOMAIN predictions |-> Get(predictions[i], "confidence", Half)])

\* EnsembleModel._weighted_average
weighted_average(predictions, weights) ==
    Update([field \in prob_fields(predictions) |-> AverageField(field, predictions, weights)],
           [confidence |-> MeanConfidence(predictions)])

\* One probability field of _voting: the fraction of members above 0.5.
VoteField(field, predictions) ==
    LET with == SelectSeq(Indices(Len(predictions)), LAMBDA i : field \in DOMAIN predictions[i])
        yes == SelectSeq(Indices(Len(with)), LAMBDA j : predictions[with[j]][field] > Half)
    IN  FDiv(FromInt(Len(yes)), FromInt(Len(with)))

\* EnsembleModel._voting
voting(predictions) ==
    Update([field \in prob_fields(predictions) |-> VoteField(field, predictions)],
           [confidence |-> MeanConfidence(predictions)])

\* np.argmax: the first position holding the maximum.
ArgMax(xs) == CHOOSE i \in DOMAIN xs :
    /\ \A j \in DOMAIN xs : xs[j] <= xs[i]
    /\ \A j \in DOMAIN xs : j < i => xs[j] < xs[i]

\* The name of the i-th member of self.models.
ModelName(i) == i

\* EnsembleModel._max_confidence: the position found in the lists of the
\* predictions that came back indexes self.models.
max_confidence(predictions, confidences) ==
    Update(predictions[ArgMax(confidences)],
           [selected_model |-> ModelName(ArgMax(confidences)),
            selected_confidence |-> confidences[ArgMax(confidences)]])

\* EnsembleModel._get_default_prediction
EnsembleDefault ==
    [error |-> "Ensemble prediction failed", confidence |-> 0,
     ensemble_method |-> ensemble.method, models_used |-> <<>>]

\* The combination step of EnsembleModel.predict over the predictions that came back.
Combine(method, predictions, weights, confidences) ==
    LET total_weight == SumSeq(weights, Len(weights))
        valid_weights == [i \in DOMAIN weights |-> FDiv(weights[i], total_weight)]
    IN  CASE method = "simple_average" ->
               weighted_average(predictions, EqualWeights(Len(predictions)))
          [] method = "voting" -> voting(predictions)
          [] method = "max_confidence" -> max_confidence(predictions, confidences)
          [] OTHER -> weighted_average(predictions, valid_weights)

\* EnsembleModel.predict, given how each member fares on this query.
EnsemblePredict(modes, valid) ==
    IF ~validate_inputs(valid) THEN EnsembleDefault
    ELSE LET individual == [i \in ModelIds |-> BTTSPredict(i, modes[i], valid)]
             back == SelectSeq(Indices(NumModels), LAMBDA i : ~individual[i].raised)
             valid_predictions == [j \in DOMAIN back |-> individual[back[j]].value]
             valid_weights == [j \in DOMAIN back |-> ensemble.weights[back[j]]]
             valid_confidences ==
                 [j \in DOMAIN back |->
                    Get(individual[back[j]].value, "confidence", ensemble.weights[back[j]])]
         IN  IF back = <<>> THEN EnsembleDefault
             ELSE IF SumSeq(valid_weights, Len(valid_weights)) = 0
                  THEN EnsembleDefault          \* ZeroDivisionError, caught by the outer except
             ELSE Update(Combine(ensemble.method, valid_predictions, valid_weights,
                                 valid_confidences),
                         [ensemble_method |-> ensemble.method,
                          models_used |-> [j \in DOMAIN back |-> ModelName(back[j])],
                          individual_predictions |-> valid_predictions])

\* A caller queries the ensemble.
predict(modes, valid) ==
    /\ prediction' = [caller |-> "ensemble", modes |-> modes, valid |-> valid,
                      raised |-> FALSE, result |-> EnsemblePredict(modes, valid)]
    /\ UNCHANGED <<ensemble, eloVars, formVars, featVars, callVars>>

\* A caller queries one market predictor directly.
predict_btts(i, mode, valid) ==
    /\ \E out \in {BTTSPredict(i, mode, valid)} :
         prediction' = [caller |-> "predictor", modes |-> <<mode>>, valid |-> valid,
                        raised |-> out.raised, result |-> out.value]
    /\ UNCHANGED <<ensemble, eloVars, formVars, featVars, callVars>>

\* -------------------------------------------------- betting recommendations
\* bookmaker_odds.get(key, default): None (NULL) stands for an absent key.
OddsOr(bookmaker_odds, key, default) ==
    IF bookmaker_odds[key] = NULL THEN default ELSE bookmaker_odds[key]

\* (probability * odds) - 1
ExpectedValue(probability, odds) == FSub(FMul(probability, odds), Unit)

AnyConfidence(confidence, threshold) == TRUE

\* confidence >= threshold
MeetsConfidence(confidence, threshold) == confidence >= threshold

\* The branches shared by BTTSModel and OverUnderModel.get_betting_recommendation:
\* first and second are the two sides as records [name, key, prob].
TwoSidedRecommendation(pred, bookmaker_odds, first, second, min_ev, min_confidence, reason) ==
    LET confidence == pred.confidence
        first_implied == IF bookmaker_odds[first.key] = NULL THEN Half
                         ELSE FDiv(Unit, bookmaker_odds[first.key])
        second_implied == IF bookmaker_odds[second.key] = NULL THEN Half
                          ELSE FDiv(Unit, bookmaker_odds[second.key])
        first_ev == ExpectedValue(first.prob, OddsOr(bookmaker_odds, first.key, 2 * Unit))
        second_ev == ExpectedValue(second.prob, OddsOr(bookmaker_odds, second.key, 2 * Unit))
    IN  IF first_ev > min_ev /\ first_ev > second_ev /\ MeetsConfidence(confidence, min_confidence)
        THEN [bet |-> first.name, expected_value |-> first_ev, our_probability |-> first.prob,
              bookmaker_probability |-> first_implied, edge |-> FSub(first.prob, first_implied),
              recommended_odds |-> bookmaker_odds[first.key], confidence |-> confidence]
        ELSE IF second_ev > min_ev /\ MeetsConfidence(confidence, min_confidence)
        THEN [bet |-> second.name, expected_value |-> second_ev, our_probability |-> second.prob,
              bookmaker_probability |-> second_implied,
              edge |-> FSub(second.prob, second_implied),
              recommended_odds |-> bookmaker_odds[second.key], confidence |-> confidence]
        ELSE [bet |-> "No Bet", expected_value |-> Max(first_ev, second_ev), reason |-> reason]

\* BTTSModel.get_betting_recommendation
btts_recommendation(self, pred, bookmaker_odds) ==
    TwoSidedRecommendation(pred, bookmaker_odds,
        [name |-> "BTTS Yes", key |-> "yes", prob |-> pred.btts_yes_prob],
        [name |-> "BTTS No", key |-> "no", prob |-> pred.btts_no_prob],
        0, self.min_confidence_threshold, "No positive EV or insufficient confidence")

\* OverUnderModel.get_betting_recommendation
over_under_recommendation(self, pred, bookmaker_odds) ==
    LET recommendation ==
            TwoSidedRecommendation(pred, bookmaker_odds,
                [name |-> "Over", key |-> "over", prob |-> pred.over_prob],
                [name |-> "Under", key |-> "under", prob |-> pred.under_prob],
                Hundredths(5), Tenths(6), "Insufficient edge or confidence")
    IN  IF recommendation.bet = "No Bet"
        THEN Update(recommendation,
                    [over_ev |-> ExpectedValue(pred.over_prob,
                                               OddsOr(bookmaker_odds, "over", 2 * Unit)),
                     under_ev |-> ExpectedValue(pred.under_prob,
                                                OddsOr(bookmaker_odds, "under", 2 * Unit)),
                     confidence |-> pred.confidence])
        ELSE Update(recommendation, [expected_total_goals |-> pred.expected_total_goals])

CleanSheetMarkets ==
    {"home_clean_sheet", "away_clean_sheet", "both_clean_sheet", "neither_clean_sheet"}

\* The odds assumed for a clean-sheet market the bookmaker dict does not hold.
CleanSheetDefaultOdds(market) ==
    CASE market = "home_clean_sheet" -> 5 * Half
      [] market = "away_clean_sheet" -> 3 * Unit
      [] market = "both_clean_sheet" -> 10 * Unit
      [] market = "neither_clean_sheet" -> Tenths(18)

\* market.replace('_', ' ').title()
MarketTitle(market) ==
    CASE market = "home_clean_sheet" -> "Home Clean Sheet"
      [] market = "away_clean_sheet" -> "Away Clean Sheet"
      [] market = "both_clean_sheet" -> "Both Clean Sheet"
      [] market = "neither_clean_sheet" -> "Neither Clean Sheet"

\* CleanSheetModel.get_betting_recommendation
clean_sheets_recommendation(self, pred, bookmaker_odds, market) ==
    IF market \notin CleanSheetMarkets THEN [bet |-> "No Bet", reason |-> "Invalid market"]
    ELSE LET confidence == pred.confidence
             our_prob == pred[market \o "_prob"]
             odds == OddsOr(bookmaker_odds, market, CleanSheetDefaultOdds(market))
             implied_prob == FDiv(Unit, odds)
             expected_value == ExpectedValue(our_prob, odds)
             edge == FSub(our_prob, implied_prob)
         IN  IF expected_value > Hundredths(5) /\ MeetsConfidence(confidence, Hundredths(65))
             THEN [bet |-> MarketTitle(market), expected_value |-> expected_value,
                   our_probability |-> our_prob, bookmaker_probability |-> implied_prob,
                   edge |-> edge, recommended_odds |-> odds, confidence |-> confidence]
             ELSE [bet |-> "No Bet", expected_value |-> expected_value,
                   reason |-> "Insufficient edge or confidence", edge |-> edge,
                   confidence |-> confidence]

\* get_betting_recommendation of the model the pending call names.
get_betting_recommendation ==
    /\ call.fn = "get_betting_recommendation" /\ ~call.done
    /\ call' = Return(CASE call.args.model = "btts" ->
                             btts_recommendation(call.args.self, call.args.prediction,
                                                 call.args.bookmaker_odds)
                        [] call.args.model = "over_under" ->
                             over_under_recommendation(call.args.self, call.args.prediction,
                                                       call.args.bookmaker_odds)
                        [] call.args.model = "clean_sheets" ->
                             clean_sheets_recommendation(call.args.self, call.args.prediction,
                                                         call.args.bookmaker_odds,
                                                         call.args.market))
    /\ UNCHANGED <<eloVars, formVars, featVars, predVars>>

\* ------------------------------------------------------------ model factory
Markets == {"btts", "over_under", "clean_sheets"}

\* What OverUnderModel.predict computes for the fixture.
OverUnderComputed ==
    [over_prob |-> Tenths(6), under_prob |-> FSub(Unit, Tenths(6)), confidence |-> Tenths(8)]

\* OverUnderModel._get_default_prediction
OverUnderDefault ==
    [over_prob |-> Half, under_prob |-> Half, confidence |-> 0,
     error |-> "Prediction failed - using defaults"]

\* What CleanSheetModel.predict computes for the fixture.
CleanSheetsComputed ==
    [home_clean_sheet_prob |-> Tenths(4), away_clean_sheet_prob |-> Tenths(1),
     both_clean_sheet_prob |-> FMul(Tenths(4), Tenths(1)),
     neither_clean_sheet_prob |-> FMul(FSub(Unit, Tenths(4)), FSub(Unit, Tenths(1))),
     confidence |-> Tenths(7)]

\* CleanSheetModel._get_default_prediction
CleanSheetsDefault ==
    [home_clean_sheet_prob |-> Hundredths(30), away_clean_sheet_prob |-> Hundredths(20),
     both_clean_sheet_prob |-> Hundredths(6), neither_clean_sheet_prob |-> Hundredths(56),
     confidence |-> 0, error |-> "Prediction failed - using defaults"]

MarketComputed(market) ==
    CASE market = "btts" -> BTTSComputed(1)
      [] market = "over_under" -> OverUnderComputed
      [] market = "clean_sheets" -> CleanSheetsComputed

MarketDefault(market) ==
    CASE market = "btts" -> BTTSDefault
      [] market = "over_under" -> OverUnderDefault
      [] market = "clean_sheets" -> CleanSheetsDefault

\* The predict method of the factory's model for a market.
MarketPredict(market, mode, valid) ==
    IF mode = "raises" THEN Raised
    ELSE IF ~validate_inputs(valid) THEN Returned(MarketDefault(market))
    ELSE IF mode = "fails" THEN Returned(MarketDefault(market))   \* except Exception
    ELSE Returned(MarketComputed(market))

\* One market's block of ModelFactory.predict_all.
MarketEntry(market, mode, valid) ==
    LET out == MarketPredict(market, mode, valid)
    IN  IF out.raised THEN [error |-> "str(e)"] ELSE out.value

\* ModelFactory._create_summary: the count of market entries.
create_summary(predictions) == [predictions_count |-> Cardinality(DOMAIN predictions \ {"match_info"})]

\* ModelFactory.predict_all
predict_all(modes, valid) ==
    /\ \E predictions \in {[btts |-> MarketEntry("btts", modes.btts, valid),
                            over_under |-> MarketEntry("over_under", modes.over_under, valid),
                            clean_sheets |-> MarketEntry("clean_sheets", modes.clean_sheets, valid),
                            match_info |-> [valid |-> valid]]} :
         prediction' = [caller |-> "factory", modes |-> modes, valid |-> valid, raised |-> FALSE,
                        result |-> Update(predictions, [summary |-> create_summary(predictions)])]
    /\ UNCHANGED <<ensemble, eloVars, formVars, featVars, callVars>>

\* -------------------------------------------------------------- goals model
\* Results of GoalsModel.calculate_match_probabilities for the expected goals
\* of a fixture, as tenths.
MatchProbabilities ==
    {[home_win |-> Tenths(h), draw |-> Tenths(d), away_win |-> Tenths(10 - h - d),
      over_25 |-> Tenths(o), under_25 |-> FSub(Unit, Tenths(o)), btts |-> Tenths(b)] :
        h \in {3, 5}, d \in {2, 3}, o \in {4, 6}, b \in {5}}

\* GoalsModel.predict_match: the feature, rating and form sources are queried
\* without a try block.
predict_match(sources_ok, probabilities) ==
    /\ prediction' =
         IF ~sources_ok
         THEN [caller |-> "goals", modes |-> <<"raises">>, valid |-> TRUE, raised |-> TRUE,
               result |-> <<>>]
         ELSE [caller |-> "goals", modes |-> <<"ok">>, valid |-> TRUE, raised |-> FALSE,
               result |-> [home_win_prob |-> probabilities.home_win,
                           draw_prob |-> probabilities.draw,
                           away_win_prob |-> probabilities.away_win,
                           over_25_prob |-> probabilities.over_25,
                           under_25_prob |-> probabilities.under_25,
                           btts_prob |-> probabilities.btts,
                           probabilities |-> probabilities]]
    /\ UNCHANGED <<ensemble, eloVars, formVars, featVars, callVars>>



Init == EloInit /\ FormIdle /\ FeatIdle /\ PredIdle /\ CallIdle

Next ==
    \/ \E m \in MatchRows : AddMatch(m)
    \/ \E reset \in BOOLEAN : calculate_historical_elos(reset)
    \/ \E m \in RequestedMatches : update_match_elos(m)

Spec == Init /\ [][Next]_vars


\* The window queries over a matches table that ingestion fills while days pass.
InitForm ==
    EloInit /\ elo = AllDefault /\ now = 1 /\ window = NoWindow /\ FeatIdle /\ PredIdle /\ CallIdle

NextForm ==
    \/ \E m \in MatchRows : AddMatch(m)
    \/ Tick
    \/ \E t \in TeamIds, d \in Dates \cup {NoDate}, v \in Venues : get_recent_matches(t, d, v)
    \/ \E t \in TeamIds, d \in Dates \cup {NoDate}, v \in Venues : get_team_matches(t, d, v)

SpecForm == InitForm /\ [][NextForm]_vars

\* The date a window query evaluates for: before_date, or the current time
\* when none is passed.
EvaluationDate == IF window.before_date = NoDate THEN window.asked_at ELSE window.before_date

\* C6: every Form or Strength window computed for an evaluation date holds
\* only matches dated strictly before that date.
WindowStrictlyBeforeEvaluation ==
    \A i \in DOMAIN window.rows : window.rows[i].date < EvaluationDate


\* The aggregator queried while its sources come and go.
InitFeat == EloInit /\ FormIdle /\ FeatIdle /\ PredIdle /\ CallIdle

NextFeat ==
    \/ \E s \in Sources, st \in SourceStates : SetSource(s, st)
    \/ \E f \in Fixtures, date \in DateKinds : get_match_features(f[1], f[2], date)

SpecFeat == InitFeat /\ [][NextFeat]_vars

FeatureKeys == UNION {DOMAIN Defaults(s) : s \in Sources}

\* The values source s computed for the fixture, under the aggregator's keys.
SourceValues(s, home, away) ==
    CASE s = "elo" -> Computed(s, home, away)
      [] s = "form" ->
           [home_form_points |-> SourceResult(s, home, away).points,
            away_form_points |-> SourceResult(s, away, home).points,
            form_diff |-> SourceResult(s, home, away).points - SourceResult(s, away, home).points]
      [] s = "team_stats" ->
           [home_attack_strength |-> SourceResult(s, home, away).home_attack_strength,
            away_attack_strength |-> SourceResult(s, home, away).away_attack_strength,
            home_goals_for_avg |-> SourceResult(s, home, away).home_goals_for_pg,
            away_goals_for_avg |-> SourceResult(s, home, away).away_goals_for_pg]
      [] s = "h2h" ->
           [h2h_matches_played |-> SourceResult(s, home, away).matches_played,
            h2h_home_wins |-> SourceResult(s, home, away).home_wins]
      [] s = "rivalry" -> Computed(s, home, away)
      [] s = "importance" -> [match_importance |-> SourceResult(s, home, away).importance_score]
      [] OTHER -> [season_phase |-> SourceResult(s, home, away).season_stage]

Agrees(values, expected) == \A key \in DOMAIN expected : values[key] = expected[key]

\* C7: whatever subset of the sources raises or has no data, a call with a
\* well-formed date returns every feature key; the keys of each failing source
\* hold its defaults and the keys of each other source hold what it computed.
AggregatorIsolatesSources ==
    (features.status # "none" /\ features.date # "malformed") =>
        /\ features.status = "ok"
        /\ DOMAIN features.values = FeatureKeys
        /\ \A s \in Sources :
             IF sourceState[s] = "ok"
             THEN Agrees(features.values, SourceValues(s, features.home, features.away))
             ELSE Agrees(features.values, Defaults(s))

\* What holds of the code: the call returns every key, and each source whose
\* call raised holds its defaults.
AggregatorReturnsEveryKey ==
    (features.status # "none" /\ features.date # "malformed") =>
        /\ features.status = "ok"
        /\ DOMAIN features.values = FeatureKeys
        /\ \A s \in Sources : SubCallRaises(s) => Agrees(features.values, Defaults(s))

\* ------------------------------------------------------ prediction requests
InitPred ==
    /\ EloInit /\ FormIdle /\ FeatIdle /\ CallIdle
    /\ ensemble \in EnsembleConfigs /\ prediction = NoPrediction

NextPred ==
    \/ \E modes \in [ModelIds -> Modes], valid \in BOOLEAN : predict(modes, valid)
    \/ \E i \in ModelIds, mode \in Modes, valid \in BOOLEAN : predict_btts(i, mode, valid)
    \/ \E modes \in [Markets -> Modes], valid \in BOOLEAN : predict_all(modes, valid)
    \/ \E sources_ok \in BOOLEAN, probabilities \in MatchProbabilities :
         predict_match(sources_ok, probabilities)

SpecPred == InitPred /\ [][NextPred]_vars

\* The probability fields a complete prediction of each kind carries.
RequiredFields(caller) ==
    CASE caller = "goals" -> {"home_win_prob", "draw_prob", "away_win_prob"}
      [] OTHER -> {"btts_yes_prob", "btts_no_prob"}

Complete(d, fields) == fields \subseteq DOMAIN d /\ "confidence" \in DOMAIN d

\* C8: every prediction that is returned to a caller, whatever failed on the
\* way, carries its complete probability set and a confidence score; the
\* factory's result carries them for every market.
EveryPredictionComplete ==
    (prediction.caller # "none" /\ ~prediction.raised) =>
        IF prediction.caller = "factory"
        THEN /\ Complete(prediction.result.btts, {"btts_yes_prob", "btts_no_prob"})
             /\ Complete(prediction.result.over_under, {"over_prob", "under_prob"})
             /\ Complete(prediction.result.clean_sheets,
                         {"home_clean_sheet_prob", "away_clean_sheet_prob"})
        ELSE Complete(prediction.result, RequiredFields(prediction.caller))

\* The members that did not fail on a query.
Succeeded(modes) == SelectSeq(Indices(NumModels), LAMBDA i : modes[i] = "ok")

\* The combination of the members that did not fail, their configured weights
\* rescaled to sum to 1.
CombinedFromSucceeded(modes) ==
    LET ok == Succeeded(modes)
        weights == [j \in DOMAIN ok |-> ensemble.weights[ok[j]]]
        total == SumSeq(weights, Len(weights))
        predictions == [j \in DOMAIN ok |-> BTTSComputed(ok[j])]
    IN  Combine(ensemble.method, predictions, [j \in DOMAIN ok |-> FDiv(weights[j], total)],
                [j \in DOMAIN ok |-> predictions[j].confidence])

RemainingWeight(modes) ==
    SumSeq([j \in DOMAIN Succeeded(modes) |-> ensemble.weights[Succeeded(modes)[j]]],
           Len(Succeeded(modes)))

\* C9: on an ensemble query where some member failed and some did not, the
\* combined probabilities are those computed from the members that did not
\* fail alone, with their configured weights rescaled to sum to 1.
FailedPredictorContributesNothing ==
    (/\ prediction.caller = "ensemble"
     /\ prediction.valid
     /\ Succeeded(prediction.modes) # <<>>
     /\ RemainingWeight(prediction.modes) > 0)
    => \A field \in ProbFields :
         /\ field \in DOMAIN prediction.result
              <=> field \in DOMAIN CombinedFromSucceeded(prediction.modes)
         /\ field \in DOMAIN prediction.result
              => prediction.result[field] = CombinedFromSucceeded(prediction.modes)[field]

\* C10: on an ensemble query where every member failed, the ensemble returns
\* without raising a result that names the failure, has confidence 0 and holds
\* no combined probability.
AllFailedGivesExplicitFailure ==
    (/\ prediction.caller = "ensemble"
     /\ prediction.valid
     /\ Succeeded(prediction.modes) = <<>>)
    => /\ ~prediction.raised
       /\ "error" \in DOMAIN prediction.result
       /\ prediction.result.confidence = 0
       /\ DOMAIN prediction.result \cap ProbFields = {}

\* ------------------------------------------------------ rating update calls
\* Largest number of goals a side scores in the scorelines tried.
MaxGoals == 5

Calculators ==
    {ELOCalculator(FromInt(k), FromInt(advantage), importance) :
        k \in {10, K_FACTOR_PTS}, advantage \in {0, HOME_ADVANTAGE_PTS},
        importance \in {Half, Unit, 3 * Half, 3 * Unit}}

RatingsTried == {FromInt(1300), DEFAULT_ELO, FromInt(1850)}

\* k_factor=None, or the override for an important match.
Overrides == {NULL, FromInt(30)}

\* The calls of update_elo tried.
UpdateEloCalls ==
    {Pending("update_elo",
             [self |-> self, home_elo |-> home_elo, away_elo |-> away_elo,
              home_goals |-> home_goals, away_goals |-> away_goals, k_factor |-> k_override,
              k |-> IF k_override = NULL THEN self.k_factor ELSE k_override]) :
        self \in Calculators, home_elo \in RatingsTried, away_elo \in RatingsTried,
        home_goals \in 0 .. MaxGoals, away_goals \in 0 .. MaxGoals, k_override \in Overrides}

\* ELOCalculator.update_elo runs on the arguments of the pending call.
UpdateEloCall ==
    /\ call.fn = "update_elo" /\ ~call.done
    /\ call' = Return(update_elo(call.args.self, call.args.home_elo, call.args.away_elo,
                                 call.args.home_goals, call.args.away_goals,
                                 call.args.k_factor))
    /\ UNCHANGED <<eloVars, formVars, featVars, predVars>>

InitUpdate ==
    EloInit /\ elo = AllDefault /\ FormIdle /\ FeatIdle /\ PredIdle /\ call \in UpdateEloCalls

NextUpdate == UpdateEloCall

SpecUpdate == InitUpdate /\ [][NextUpdate]_vars

\* An update of two sides rated 1500 after a 1-1 draw.
EqualRatingsDraw ==
    /\ HasReturned("update_elo")
    /\ call.args.home_elo = DEFAULT_ELO /\ call.args.away_elo = DEFAULT_ELO
    /\ call.args.home_goals = 1 /\ call.args.away_goals = 1

\* C16 as stated: with equal ratings (1500 v 1500) and a 1-1 draw the update
\* leaves both ratings unchanged, up to one hundredth of a point.
EqualDrawLeavesRatings ==
    EqualRatingsDraw =>
        /\ Abs(call.result.home_change) <= Hundredths(1)
        /\ Abs(call.result.away_change) <= Hundredths(1)

\* C16: with equal ratings (1500 v 1500) and a 1-1 draw, a calculator whose
\* home advantage is 0 leaves both ratings exactly unchanged; one with a
\* positive home advantage expects more than 0.5 of the home side and moves
\* rating from the home side to the away side.
EqualDrawNeutralWithoutAdvantage ==
    EqualRatingsDraw =>
        IF call.args.self.home_advantage = 0
        THEN /\ call.result.home_change = 0 /\ call.result.away_change = 0
             /\ call.result.home = DEFAULT_ELO /\ call.result.away = DEFAULT_ELO
        ELSE /\ call.result.home_expected > Half
             /\ call.result.home_change < 0 /\ call.result.away_change > 0

EqualDrawWithoutAdvantageSeen ==
    EqualRatingsDraw /\ call.args.self.home_advantage = 0 /\ call.result.home = DEFAULT_ELO

SeasonTable ==
    {MatchRow(1, 1, 2, 0, 1, "FINISHED"), MatchRow(1, 2, 3, 1, 1, "FINISHED"),
     MatchRow(2, 1, 2, 3, 0, "FINISHED"), MatchRow(2, 2, 3, 0, 1, "FINISHED")}

InitTeamForm ==
    /\ matches \in {{}, SeasonTable}
    /\ elo = AllDefault /\ lastOp = NoOp /\ runBase = elo /\ runOrder = <<>> /\ runLog = <<>>
    /\ skipped = <<>> /\ maxDate = 0 /\ stale = FALSE /\ resetRuns = <<>> /\ nOps = 0
    /\ FormIdle /\ FeatIdle /\ PredIdle /\ CallIdle

NextTeamForm ==
    \/ \E m \in MatchRows : AddMatch(m)
    \/ \E t \in TeamIds, d \in Dates \cup {NoDate}, v \in Venues : calculate_team_form(t, d, v)
    \/ \E f \in Fixtures, d \in Dates \cup {NoDate} : calculate_match_form(f[1], f[2], d)

SpecTeamForm == InitTeamForm /\ [][NextTeamForm]_vars

\* C18: a form computed over a window that holds no completed match is the
\* neutral default (points per game 1.5, empty result string, neutral
\* momentum), and the call does not raise.
EmptyWindowGivesNeutralDefaults ==
    /\ (HasReturned("calculate_team_form") /\ window.rows = <<>>) =>
          /\ ~HasRaised(call.result)
          /\ call.result.points_per_game = 3 * Half
          /\ call.result.form_string = <<>>
          /\ call.result.momentum = "neutral"
    /\ (HasReturned("calculate_match_form") /\ call.result.home_games_played = 0) =>
          /\ call.result.home_form_ppg = 3 * Half
          /\ call.result.home_form_string = <<>>
          /\ call.result.home_momentum = "neutral"

\* --------------------------------------------- betting recommendation calls
Probabilities == {Tenths(3), Half, Tenths(6), Tenths(8)}

Confidences == {0, Half, Tenths(6), Hundredths(65), Tenths(8)}

\* Decimal odds a bookmaker dict holds for a key, or None when it lacks the key.
OddsValues == {NULL, 3 * Half, 2 * Unit, 3 * Unit}

BTTSCalls ==
    {Pending("get_betting_recommendation",
             [model |-> "btts", self |-> [min_confidence_threshold |-> threshold],
              market |-> "btts",
              prediction |-> [btts_yes_prob |-> p, btts_no_prob |-> FSub(Unit, p),
                              confidence |-> c],
              bookmaker_odds |-> [yes |-> y, no |-> n]]) :
        threshold \in {Tenths(6), Hundredths(75)}, p \in Probabilities, c \in Confidences,
        y \in OddsValues, n \in OddsValues}

OverUnderCalls ==
    {Pending("get_betting_recommendation",
             [model |-> "over_under", self |-> [goal_threshold |-> 5 * Half],
              market |-> "over_under",
              prediction |-> [over_prob |-> p, under_prob |-> FSub(Unit, p), confidence |-> c,
                              expected_total_goals |-> Tenths(27)],
              bookmaker_odds |-> [over |-> o, under |-> u]]) :
        p \in Probabilities, c \in Confidences, o \in OddsValues, u \in OddsValues}

CleanSheetCalls ==
    {Pending("get_betting_recommendation",
             [model |-> "clean_sheets", self |-> <<>>, market |-> market,
              prediction |-> [home_clean_sheet_prob |-> p, away_clean_sheet_prob |-> Tenths(3),
                              both_clean_sheet_prob |-> FMul(p, Tenths(3)),
                              neither_clean_sheet_prob |-> FMul(FSub(Unit, p), Tenths(7)),
                              confidence |-> c],
              bookmaker_odds |-> [k \in CleanSheetMarkets |-> IF k = market THEN o ELSE NULL]]) :
        market \in CleanSheetMarkets \cup {"clean_sheet"}, p \in Probabilities,
        c \in Confidences, o \in OddsValues}

InitBet ==
    /\ EloInit /\ elo = AllDefault /\ FormIdle /\ FeatIdle /\ PredIdle
    /\ call \in BTTSCalls \cup OverUnderCalls \cup CleanSheetCalls

NextBet == get_betting_recommendation

SpecBet == InitBet /\ [][NextBet]_vars

\* The EV and confidence thresholds of the model a call addressed.
MinEV == IF call.args.model = "btts" THEN 0 ELSE Hundredths(5)

MinConfidence ==
    CASE call.args.model = "btts" -> call.args.self.min_confidence_threshold
      [] call.args.model = "over_under" -> Tenths(6)
      [] call.args.model = "clean_sheets" -> Hundredths(65)

\* The odds the bookmaker dict holds for the bet a recommendation names.
OddsKey(bet) ==
    CASE bet = "BTTS Yes" -> "yes" [] bet = "BTTS No" -> "no"
      [] bet = "Over" -> "over" [] bet = "Under" -> "under"
      [] OTHER -> call.args.market

\* C14: a recommendation names a bet only if that bet's expected value is
\* above the model's EV threshold (0 for BTTS, 0.05 otherwise) and the
\* prediction's confidence is at least the confidence threshold; every other
\* recommendation is 'No Bet' and carries a reason.
BetOnlyOnValueAndConfidence ==
    HasReturned("get_betting_recommendation") =>
        IF call.result.bet = "No Bet" THEN "reason" \in DOMAIN call.result
        ELSE /\ call.result.expected_value > MinEV
             /\ call.result.expected_value
                  = FSub(FMul(call.result.our_probability,
                              IF call.args.bookmaker_odds[OddsKey(call.result.bet)] = NULL
                              THEN IF call.args.model = "clean_sheets"
                                   THEN CleanSheetDefaultOdds(call.args.market) ELSE 2 * Unit
                              ELSE call.args.bookmaker_odds[OddsKey(call.result.bet)]), Unit)
             /\ call.args.prediction.confidence >= MinConfidence

\* A bet was recommended on supplied odds, with confidence exactly at the threshold.
BetAtThresholdSeen ==
    /\ HasReturned("get_betting_recommendation")
    /\ call.result.bet = "Over"
    /\ call.args.bookmaker_odds.over # NULL
    /\ call.args.prediction.confidence = Tenths(6)

\* The bookmaker dict of the call holds no odds for the market it is about.
OddsNotSupplied ==
    IF call.args.model = "clean_sheets"
    THEN call.args.market \in CleanSheetMarkets => call.args.bookmaker_odds[call.args.market] = NULL
    ELSE \A k \in DOMAIN call.args.bookmaker_odds : call.args.bookmaker_odds[k] = NULL

\* C15: when the bookmaker odds of a market are not supplied, no bet on that
\* market is recommended.
NoBetWithoutOdds ==
    (HasReturned("get_betting_recommendation") /\ OddsNotSupplied) => call.result.bet = "No Bet"

\* ------------------------------------------------- ensemble probability sets
\* 1e-6 lies below the spacing of the model's floats; sums are compared within
\* the rounding three operations per field can leave.
SumTolerance == 4 * UlpOfOne

SumsToOne(d) == Abs(d.btts_yes_prob + d.btts_no_prob - Unit) <= SumTolerance

\* C12: in every ensemble output, under each combination method, the combined
\* yes and no probabilities sum to 1 within tolerance whenever those of each
\* contributing predictor do.
CombinedOutcomesSumToOne ==
    (/\ prediction.caller = "ensemble"
     /\ "individual_predictions" \in DOMAIN prediction.result
     /\ \A i \in DOMAIN prediction.result.individual_predictions :
          SumsToOne(prediction.result.individual_predictions[i]))
    => SumsToOne(prediction.result)

\* ------------------------------------------------ goal distribution model
\* min(xg, 5.0) and max(xg, 0.2) of GoalsModel.calculate_expected_goals.
XG_CAP == FromInt(5)

XG_FLOOR == Tenths(2)

GoalsModel(advantage, use_elo, use_form, elo_weight, form_weight) ==
    [home_advantage |-> advantage, use_elo |-> use_elo, use_form |-> use_form,
     elo_weight |-> elo_weight, form_weight |-> form_weight]

DefaultGoalsModel == GoalsModel(Tenths(13), TRUE, TRUE, Tenths(3), Tenths(2))

\* a / b for a of either sign, b > 0.
FDivSigned(a, b) == IF a < 0 THEN -FDiv(-a, b) ELSE FDiv(a, b)

\* attack / defence * league average: the strengths divided, not multiplied.
BaseDividedByDefence(attack, defence, league_goals) ==
    FMul(FDiv(attack, defence), league_goals)

\* attack strength * opponent's defence strength * league average goals.
base_xg(attack, defence, league_goals) == FMul(FMul(attack, defence), league_goals)

\* GoalsModel.calculate_expected_goals, given what its feature, rating and
\* form queries returned.
goals_expected_goals(self, home_features, away_features, league_avg, home_elo, away_elo, form_diff) ==
    LET home_base == FMul(base_xg(home_features.attack_strength,
                                  away_features.defence_strength,
                                  league_avg.home_goals_per_game), self.home_advantage)
        away_base == base_xg(away_features.attack_strength, home_features.defence_strength,
                             league_avg.away_goals_per_game)
        elo_diff == FSub(home_elo, away_elo)
        elo_multiplier ==
            IF self.use_elo
            THEN FAdd(Unit, FMul(FDivSigned(elo_diff, FromInt(1000)), self.elo_weight))
            ELSE Unit
        form_multiplier ==
            IF self.use_form
            THEN FAdd(Unit, FMul(FMul(form_diff, Tenths(1)), self.form_weight))
            ELSE Unit
        home_elo_xg == IF self.use_elo THEN FMul(home_base, elo_multiplier) ELSE home_base
        away_elo_xg == IF self.use_elo THEN FDiv(away_base, elo_multiplier) ELSE away_base
        home_xg == IF self.use_form THEN FMul(home_elo_xg, form_multiplier) ELSE home_elo_xg
        away_xg == IF self.use_form THEN FDiv(away_elo_xg, form_multiplier) ELSE away_elo_xg
    IN  <<Max(Min(home_xg, XG_CAP), XG_FLOOR), Max(Min(away_xg, XG_CAP), XG_FLOOR)>>

\* league_avg_goals = 1.5 and home_advantage = 1.3 of the market predictors.
MarketBase(feats) ==
    LET home_attack == Get(feats, "home_attack_strength", Unit)
        away_attack == Get(feats, "away_attack_strength", Unit)
        home_defence == Get(feats, "home_defence_strength", Unit)
        away_defence == Get(feats, "away_defence_strength", Unit)
    IN  <<FMul(FMul(FMul(home_attack, away_defence), 3 * Half), Tenths(13)),
          FMul(FMul(away_attack, home_defence), 3 * Half)>>

\* OverUnderModel.calculate_expected_goals
over_under_expected_goals(feats) ==
    LET base == MarketBase(feats)
        form_adjustment == FAdd(Unit, FMul(Get(feats, "form_diff", 0), Hundredths(5)))
    IN  IF form_adjustment > Unit
        THEN <<FMul(base[1], form_adjustment),
               FMul(base[2], FSub(2 * Unit, form_adjustment))>>
        ELSE base

\* BTTSModel.calculate_expected_goals
btts_expected_goals(feats) == MarketBase(feats)

\* The expected goals of a fixture, by the model the call addressed; the
\* values returned are the means handed to poisson.pmf.
calculate_expected_goals ==
    /\ call.fn = "calculate_expected_goals" /\ ~call.done
    /\ call' = Return(CASE call.args.model = "goals" ->
                             goals_expected_goals(call.args.self, call.args.home_features,
                                                  call.args.away_features,
                                                  call.args.league_avg, call.args.home_elo,
                                                  call.args.away_elo, call.args.form_diff)
                        [] call.args.model = "over_under" ->
                             over_under_expected_goals(call.args.features)
                        [] call.args.model = "btts" ->
                             btts_expected_goals(call.args.features))
    /\ UNCHANGED <<eloVars, formVars, featVars, predVars>>

\* Default max_goals of calculate_match_probabilities and
\* max_goals_to_calculate of OverUnderModel.
DEFAULT_MAX_GOALS == 10

MAX_GOALS_TO_CALCULATE == 8

\* The Poisson means the probability calls are tried with.
Means == {Tenths(2), Unit, 3 * Half, 5 * Half, FromInt(5)}

\* exp(-mu) at those means, correctly rounded.
ExpNeg(mu) ==
    CASE mu = Tenths(2) -> Fl(53656)
      [] mu = Unit -> Fl(24109)
      [] mu = 3 * Half -> Fl(14623)
      [] mu = 5 * Half -> Fl(5380)
      [] mu = FromInt(5) -> Fl(442)

\* [poisson.pmf(i, mu) for i in range(n + 1)], from pmf(0) = exp(-mu) and
\* pmf(k) = pmf(k - 1) * mu / k.
RECURSIVE PmfFrom(_, _, _, _)
PmfFrom(mu, k, n, probs) ==
    IF k > n THEN probs
    ELSE PmfFrom(mu, k + 1, n, Append(probs, FDiv(FMul(probs[k], mu), FromInt(k))))

PoissonPmfs(mu, n) == PmfFrom(mu, 1, n, <<ExpNeg(mu)>>)

\* The items of the scorelines dict in insertion order, each <<home goals,
\* away goals, probability>>.
Scorelines(home_probs, away_probs, n) ==
    [i \in 1 .. (n + 1) * (n + 1) |->
        <<(i - 1) \div (n + 1), (i - 1) % (n + 1),
          FMul(home_probs[((i - 1) \div (n + 1)) + 1], away_probs[((i - 1) % (n + 1)) + 1])>>]

\* sum(...) over the items from position i on, given the running total: the
\* probabilities of the items kept are added left to right.  A total of
\* probabilities is never negative; looking at it first has each partial
\* sum computed before the next item is read, as Python's loop does.
RECURSIVE SumFrom(_, _, _, _)
SumFrom(scorelines, keep, i, total) ==
    IF total < 0 \/ i > Len(scorelines) THEN total
    ELSE SumFrom(scorelines, keep, i + 1,
                 IF keep[i] THEN FAdd(total, scorelines[i][3]) ELSE total)

\* sum(prob for (h, a), prob in scorelines.items() if Keep(h, a))
SumWhere(scorelines, Keep(_, _)) ==
    SumFrom(scorelines,
            [i \in DOMAIN scorelines |-> Keep(scorelines[i][1], scorelines[i][2])], 1, 0)

\* The market aggregation of GoalsModel.calculate_match_probabilities.
MarketSums(scorelines) ==
    LET over_25_prob == SumWhere(scorelines, LAMBDA h, a : FromInt(h + a) > 5 * Half)
        over_35_prob == SumWhere(scorelines, LAMBDA h, a : FromInt(h + a) > 7 * Half)
        btts_prob == SumWhere(scorelines, LAMBDA h, a : h > 0 /\ a > 0)
    IN  [home_win |-> SumWhere(scorelines, LAMBDA h, a : h > a),
         draw |-> SumWhere(scorelines, LAMBDA h, a : h = a),
         away_win |-> SumWhere(scorelines, LAMBDA h, a : h < a),
         over_05 |-> SumWhere(scorelines, LAMBDA h, a : FromInt(h + a) > Half),
         over_15 |-> SumWhere(scorelines, LAMBDA h, a : FromInt(h + a) > 3 * Half),
         over_25 |-> over_25_prob,
         over_35 |-> over_35_prob,
         under_25 |-> FSub(Unit, over_25_prob),
         under_35 |-> FSub(Unit, over_35_prob),
         btts |-> btts_prob,
         btts_no |-> FSub(Unit, btts_prob),
         home_clean_sheet |-> SumWhere(scorelines, LAMBDA h, a : a = 0),
         away_clean_sheet |-> SumWhere(scorelines, LAMBDA h, a : h = 0),
         scorelines |-> scorelines]

\* GoalsModel.calculate_match_probabilities(home_xg, away_xg, max_goals)
calculate_match_probabilities ==
    /\ call.fn = "calculate_match_probabilities" /\ ~call.done
    /\ \E home_probs \in {PoissonPmfs(call.args.home_xg, call.args.max_goals)} :
       \E away_probs \in {PoissonPmfs(call.args.away_xg, call.args.max_goals)} :
       \E scorelines \in {Scorelines(home_probs, away_probs, call.args.max_goals)} :
           call' = Return(MarketSums(scorelines))
    /\ UNCHANGED <<eloVars, formVars, featVars, predVars>>

\* Summing the scorelines on or below the threshold as well as those under it.
UnderOrEqual(total_goals, goal_threshold) == FromInt(total_goals) <= goal_threshold

\* total_goals < self.goal_threshold
IsUnder(total_goals, goal_threshold) == FromInt(total_goals) < goal_threshold

\* OverUnderModel.calculate_over_under_probabilities(scorelines)
over_under_probabilities(self, scorelines) ==
    LET under_prob == SumWhere(scorelines, LAMBDA h, a : IsUnder(h + a, self.goal_threshold))
    IN  [over_prob |-> FSub(Unit, under_prob), under_prob |-> under_prob,
         scorelines |-> scorelines]

\* OverUnderModel: calculate_scoreline_probabilities(home_xg, away_xg), then
\* calculate_over_under_probabilities on its result, as predict calls them.
calculate_over_under_probabilities ==
    /\ call.fn = "calculate_over_under_probabilities" /\ ~call.done
    /\ \E home_probs \in {PoissonPmfs(call.args.home_xg, call.args.self.max_goals_to_calculate)} :
       \E away_probs \in {PoissonPmfs(call.args.away_xg, call.args.self.max_goals_to_calculate)} :
       \E scorelines \in {Scorelines(home_probs, away_probs,
                                     call.args.self.max_goals_to_calculate)} :
           call' = Return(over_under_probabilities(call.args.self, scorelines))
    /\ UNCHANGED <<eloVars, formVars, featVars, predVars>>

\* ------------------------------------------------------ goal model calls
Strengths == {Tenths(1), Half, Unit, FromInt(2), FromInt(4)}

LeagueAverage == [home_goals_per_game |-> 3 * Half, away_goals_per_game |-> Tenths(12)]

EloPairs == {<<FromInt(1500), FromInt(1500)>>, <<FromInt(1700), FromInt(1500)>>,
             <<FromInt(1400), FromInt(1600)>>}

FormDiffs == {-Unit, 0, 3 * Half}

GoalsModels == {DefaultGoalsModel, GoalsModel(Tenths(13), FALSE, FALSE, Tenths(3), Tenths(2))}

GoalsExpectedGoalsCalls ==
    {Pending("calculate_expected_goals",
             [model |-> "goals", self |-> self,
              home_features |-> [attack_strength |-> ha, defence_strength |-> hd],
              away_features |-> [attack_strength |-> aa, defence_strength |-> ad],
              league_avg |-> LeagueAverage, home_elo |-> elos[1], away_elo |-> elos[2],
              form_diff |-> form_diff]) :
        self \in GoalsModels, ha \in Strengths, hd \in Strengths, aa \in Strengths,
        ad \in Strengths, elos \in EloPairs, form_diff \in FormDiffs}

MarketExpectedGoalsCalls ==
    {Pending("calculate_expected_goals",
             [model |-> model,
              features |-> [home_attack_strength |-> ha, home_defence_strength |-> hd,
                            away_attack_strength |-> aa, away_defence_strength |-> ad,
                            form_diff |-> form_diff]]) :
        model \in {"over_under", "btts"}, ha \in Strengths, hd \in Strengths,
        aa \in Strengths, ad \in Strengths, form_diff \in FormDiffs}
    \cup {Pending("calculate_expected_goals",
                  [model |-> model, features |-> [form_diff |-> form_diff]]) :
            model \in {"over_under", "btts"}, form_diff \in FormDiffs}

MatchProbabilityCalls ==
    {Pending("calculate_match_probabilities",
             [home_xg |-> home_xg, away_xg |-> away_xg, max_goals |-> DEFAULT_MAX_GOALS]) :
        home_xg \in Means, away_xg \in Means}

GoalThresholds == {3 * Half, FromInt(2), 5 * Half, FromInt(3), 7 * Half}

OverUnderProbabilityCalls ==
    {Pending("calculate_over_under_probabilities",
             [self |-> [goal_threshold |-> goal_threshold,
                        max_goals_to_calculate |-> MAX_GOALS_TO_CALCULATE],
              home_xg |-> home_xg, away_xg |-> away_xg]) :
        goal_threshold \in GoalThresholds, home_xg \in Means, away_xg \in Means}

InitGoals ==
    /\ EloInit /\ elo = AllDefault /\ FormIdle /\ FeatIdle /\ PredIdle
    /\ call \in GoalsExpectedGoalsCalls \cup MarketExpectedGoalsCalls
                  \cup MatchProbabilityCalls \cup OverUnderProbabilityCalls

NextGoals ==
    \/ calculate_expected_goals
    \/ calculate_match_probabilities
    \/ calculate_over_under_probabilities

SpecGoals == InitGoals /\ [][NextGoals]_vars

\* C11: for every pair of expected goals in [0.2, 5.0] and the scoreline
\* matrix over 0..10 goals a side, the home win, draw and away win
\* probabilities of the goal distribution model sum to 1 within tolerance.
OutcomeProbabilitiesSumToOne ==
    HasReturned("calculate_match_probabilities") =>
        Abs(FAdd(FAdd(call.result.home_win, call.result.draw), call.result.away_win) - Unit)
            <= SumTolerance

\* C13: every expected-goals value handed to the Poisson distribution, by the
\* goal distribution model and by each market predictor, lies in [0.2, 5.0].
PoissonMeansWithinRange ==
    HasReturned("calculate_expected_goals") =>
        \A side \in 1 .. 2 : call.result[side] >= XG_FLOOR /\ call.result[side] <= XG_CAP

\* C19: for any threshold, integer-valued ones included, the over probability
\* is the sum of the scoreline cells with more total goals than the threshold
\* and the under probability is the sum of the cells with at most as many.
OverUnderSplitAtThreshold ==
    HasReturned("calculate_over_under_probabilities") =>
        /\ Abs(call.result.over_prob
                 - SumWhere(call.result.scorelines,
                            LAMBDA h, a : ~UnderOrEqual(h + a, call.args.self.goal_threshold)))
             <= SumTolerance
        /\ Abs(call.result.under_prob
                 - SumWhere(call.result.scorelines,
                            LAMBDA h, a : UnderOrEqual(h + a, call.args.self.goal_threshold)))
             <= SumTolerance

GoalsCallReturned == HasReturned("calculate_expected_goals") /\ call.args.model = "goals"

Sides == {"home", "away"}

Opponent(side) == IF side = "home" THEN "away" ELSE "home"

\* The expected goals a side was given by the call that returned.
ExpectedGoalsOf(result, side) == IF side = "home" THEN result[1] ELSE result[2]

FeaturesOf(side) ==
    IF side = "home" THEN call.args.home_features ELSE call.args.away_features

\* What the call would have returned with one strength of one side replaced.
Revised(side, key, strength) ==
    goals_expected_goals(call.args.self,
                         IF side = "home"
                         THEN [call.args.home_features EXCEPT ![key] = strength]
                         ELSE call.args.home_features,
                         IF side = "away"
                         THEN [call.args.away_features EXCEPT ![key] = strength]
                         ELSE call.args.away_features,
                         call.args.league_avg, call.args.home_elo, call.args.away_elo,
                         call.args.form_diff)

\* C20 as stated: with the other inputs fixed, a side's expected goals rise
\* strictly with its attack strength and fall strictly with the opponent's
\* defence strength, over the whole input range.
ExpectedGoalsStrictlyMonotone ==
    GoalsCallReturned =>
        \A side \in Sides, strength \in Strengths :
            /\ strength > FeaturesOf(side).attack_strength =>
                   ExpectedGoalsOf(Revised(side, "attack_strength", strength), side)
                       > ExpectedGoalsOf(call.result, side)
            /\ strength > FeaturesOf(Opponent(side)).defence_strength =>
                   ExpectedGoalsOf(Revised(Opponent(side), "defence_strength", strength), side)
                       < ExpectedGoalsOf(call.result, side)

\* more exceeds less unless both sit on the same end of [0.2, 5.0].
RisesUpToClamp(less, more) ==
    /\ more >= less
    /\ more = less => less \in {XG_FLOOR, XG_CAP}

\* C20: with the other inputs fixed, a side's expected goals never fall when
\* its attack strength or the opponent's defence strength (a conceding rate)
\* rises, and rise strictly unless both values are clamped to the same end of
\* [0.2, 5.0].
ExpectedGoalsRiseUpToClamp ==
    GoalsCallReturned =>
        \A side \in Sides, strength \in Strengths :
            /\ strength > FeaturesOf(side).attack_strength =>
                   RisesUpToClamp(ExpectedGoalsOf(call.result, side),
                                  ExpectedGoalsOf(Revised(side, "attack_strength", strength),
                                                  side))
            /\ strength > FeaturesOf(Opponent(side)).defence_strength =>
                   RisesUpToClamp(ExpectedGoalsOf(call.result, side),
                                  ExpectedGoalsOf(Revised(Opponent(side), "defence_strength",
                                                          strength), side))

\* A call whose home expected goals lie inside the range, rise with a higher
\* home attack strength and reach the cap with a higher away defence strength.
StrictRiseAndCapSeen ==
    /\ GoalsCallReturned
    /\ call.result[1] > XG_FLOOR /\ call.result[1] < XG_CAP
    /\ \E strength \in Strengths :
           /\ strength > call.args.home_features.attack_strength
           /\ Revised("home", "attack_strength", strength)[1] > call.result[1]
           /\ Revised("home", "attack_strength", strength)[1] < XG_CAP
    /\ \E strength \in Strengths :
           /\ strength > call.args.away_features.defence_strength
           /\ Revised("away", "defence_strength", strength)[1] = XG_CAP

\* ------------------------------------------------ max-confidence selection
\* What the member named by selected_model returned on the query.
OutputOfSelected ==
    BTTSPredict(prediction.result.selected_model,
                prediction.modes[prediction.result.selected_model], prediction.valid)

\* C30: under max-confidence selection the reported selected_model names the
\* member whose output is returned, for every pattern of failed members.
SelectedModelProducedOutput ==
    (/\ prediction.caller = "ensemble"
     /\ ensemble.method = "max_confidence"
     /\ "selected_model" \in DOMAIN prediction.result)
    => /\ ~OutputOfSelected.raised
       /\ \A field \in DOMAIN OutputOfSelected.value :
            prediction.result[field] = OutputOfSelected.value[field]

\* ---------------------------------------------------------- momentum calls
MaxWindow == 6

\* The match at position i of a window of team 1, listed newest first, that
\* ended in the given result for it; home and away matches alternate.
WindowRow(i, result) ==
    LET gf == IF result = "W" THEN 2 ELSE IF result = "D" THEN 1 ELSE 0
        ga == 1
    IN  IF i % 2 = 1 THEN MatchRow(MaxWindow + 1 - i, 1, 2, gf, ga, "FINISHED")
        ELSE MatchRow(MaxWindow + 1 - i, 3, 1, ga, gf, "FINISHED")

\* Every window of up to MaxWindow finished matches of team 1, by its results.
Windows ==
    {[i \in DOMAIN results |-> WindowRow(i, results[i])] :
        results \in UNION {[1 .. n -> {"W", "D", "L"}] : n \in 0 .. MaxWindow}}

MomentumCalls ==
    {Pending("calculate_momentum", [matches |-> w, team_id |-> 1]) : w \in Windows}

\* FormCalculator._calculate_momentum called on a window.
CalculateMomentum ==
    /\ call.fn = "calculate_momentum" /\ ~call.done
    /\ call' = Return([momentum |-> calculate_momentum(call.args.matches, call.args.team_id)])
    /\ UNCHANGED <<eloVars, formVars, featVars, predVars>>

InitMomentum ==
    /\ EloInit /\ elo = AllDefault /\ FormIdle /\ FeatIdle /\ PredIdle
    /\ call \in MomentumCalls

NextMomentum == CalculateMomentum

SpecMomentum == InitMomentum /\ [][NextMomentum]_vars

\* The points team 1 took from the matches at positions from .. to of the window.
WindowPoints(from, to) ==
    SumInts([i \in 1 .. (to - from + 1) |->
                calculate_match_result(call.args.matches[from + i - 1], call.args.team_id).points],
            to - from + 1)

\* The momentum of the window by exact arithmetic: with newer and older the
\* points of the two halves of sizes mid and rest, newer / mid - older / rest
\* is compared with 1/2 after multiplying through by 2 * mid * rest.
ExactMomentum ==
    LET n == Len(call.args.matches)
        mid == n \div 2
        rest == n - mid
        newer == WindowPoints(1, mid)
        older == WindowPoints(mid + 1, n)
    IN  IF n < 4 THEN "neutral"
        ELSE IF 2 * newer * rest - 2 * older * mid > mid * rest THEN "positive"
        ELSE IF 2 * newer * rest - 2 * older * mid < -(mid * rest) THEN "negative"
        ELSE "neutral"

AllWins ==
    \A i \in DOMAIN call.args.matches :
        calculate_match_result(call.args.matches[i], call.args.team_id).result = "W"

\* C23: momentum is neutral for a window of fewer than 4 matches; otherwise
\* it is positive iff the newer half's points per game exceed the older
\* half's by more than 0.5, negative iff they are lower by more than 0.5 and
\* neutral otherwise; an all-win window is never negative.
MomentumComparesHalves ==
    HasReturned("calculate_momentum") =>
        /\ call.result.momentum = ExactMomentum
        /\ AllWins => call.result.momentum # "negative"

\* A five-match window whose two newest matches gave more than 0.5 points per
\* game less than its three oldest.
NegativeMomentumOnOddWindowSeen ==
    /\ HasReturned("calculate_momentum")
    /\ Len(call.args.matches) = 5
    /\ call.result.momentum = "negative"

\* ------------------------------------------------------ prediction serving
\* A query session that commits the default rating for every team.
CommitDefaults(ratings) == AllDefault

\* session.close() on a session that only queried: no commit, the stored
\* ratings stay as they are.
CloseSession(ratings) == ratings

\* ELOCalculator.get_team_elo: the stored rating, or the default for an id the
\* teams table does not hold.
stored_elo(team_id) == IF team_id \in TeamIds THEN elo[team_id] ELSE DEFAULT_ELO

\* ELOCalculator.predict_match_outcome(home_team_id, away_team_id)
predict_match_outcome(home_team_id, away_team_id) ==
    /\ \E expected_home \in {calculate_expected_score(DefaultCalculator,
                                                      stored_elo(home_team_id),
                                                      stored_elo(away_team_id), TRUE)} :
         call' = [fn |-> "predict_match_outcome",
                  args |-> [home_team_id |-> home_team_id, away_team_id |-> away_team_id],
                  done |-> TRUE,
                  result |-> [home_win_prob |-> FMul(expected_home, FSub(Unit, Unit \div 4)),
                              draw_prob |-> Unit \div 4,
                              away_win_prob |-> FMul(FSub(Unit, expected_home),
                                                     FSub(Unit, Unit \div 4)),
                              home_elo |-> stored_elo(home_team_id),
                              away_elo |-> stored_elo(away_team_id),
                              expected_home_score |-> expected_home,
                              elo_differential |->
                                  FAdd(FSub(stored_elo(home_team_id), stored_elo(away_team_id)),
                                       DefaultCalculator.home_advantage)]]
    /\ elo' = CloseSession(elo)
    /\ UNCHANGED <<matches, lastOp, runBase, runOrder, runLog, skipped, maxDate, stale,
                   resetRuns, nOps, formVars, featVars, predVars>>

\* A stored season: team 2 beat team 1 and drew with team 3.
ServedTable ==
    {MatchRow(1, 1, 2, 0, 1, "FINISHED"), MatchRow(2, 2, 3, 1, 1, "FINISHED")}

InitServe ==
    /\ elo \in InitialRatings /\ matches \in {{}, ServedTable}
    /\ lastOp = NoOp /\ runBase = elo /\ runOrder = <<>> /\ runLog = <<>>
    /\ skipped = <<>> /\ maxDate = 0 /\ stale = FALSE /\ resetRuns = <<>> /\ nOps = 0
    /\ FormIdle /\ FeatIdle /\ PredIdle /\ CallIdle

NextServe ==
    \/ \E reset \in BOOLEAN : calculate_historical_elos(reset)
    \/ \E home_team_id, away_team_id \in TeamIds \cup {UnknownTeam} :
         home_team_id # away_team_id /\ predict_match_outcome(home_team_id, away_team_id)
    \/ \E sources_ok \in BOOLEAN, probabilities \in MatchProbabilities :
         predict_match(sources_ok, probabilities)

SpecServe == InitServe /\ [][NextServe]_vars

\* A step in which a prediction is served.
PredictionServed ==
    \/ call'.fn = "predict_match_outcome" /\ call' # call
    \/ prediction' # prediction

\* C24: serving a prediction changes no stored rating and no match record.
ServingLeavesStoreUnchanged ==
    [][PredictionServed => (elo' = elo /\ matches' = matches)]_vars

\* A prediction was served from ratings that a replay had moved.
ServedAfterReplay ==
    /\ HasReturned("predict_match_outcome")
    /\ lastOp.kind = "replay"
    /\ call.args.home_team_id \in TeamIds
    /\ call.result.home_elo = elo[call.args.home_team_id]
    /\ call.result.home_elo # DEFAULT_ELO

\* ------------------------------------------------- batch replay transaction
\* if updated_count % 50 == 0: session.commit()
COMMIT_EVERY == 50

MaxBatch == 120

\* The i-th row the replay query returns: results that keep the three ratings
\* near each other, every seventh row without a score.
BatchRow(i) ==
    IF i % 7 = 0 THEN MatchRow(1, 1, 2, NULL, 1, "FINISHED")
    ELSE IF i % 3 = 1 THEN MatchRow(1, 1, 2, 0, 1, "FINISHED")
    ELSE IF i % 3 = 2 THEN MatchRow(1, 2, 3, 1, 1, "FINISHED")
    ELSE MatchRow(1, 3, 1, 0, 1, "FINISHED")

\* The session of a replay: the ratings as updated so far, the ratings of the
\* last commit, the updates applied and the ratings each of them left.
Transaction(ratings) ==
    [elo |-> ratings, committed |-> ratings, count |-> 0, trail |-> <<>>, raised |-> FALSE]

\* A rollback that keeps the uncommitted updates.
KeepUncommitted(st) == st.elo

\* session.rollback(): the ratings of the last commit.
rollback(st) == st.committed

\* The session after the update r of match m: the commit falls on every
\* 50th update.
Updated(st, m, r) ==
    LET updated == [st.elo EXCEPT ![m.home] = r.home, ![m.away] = r.away]
    IN  [elo |-> updated,
         committed |-> IF (st.count + 1) % COMMIT_EVERY = 0 THEN updated ELSE st.committed,
         count |-> st.count + 1,
         trail |-> Append(st.trail, updated),
         raised |-> FALSE]

\* One pass of the loop body over the i-th row; the pass numbered fail_at
\* raises before it updates anything (its team query fails).
BatchStep(st, i, fail_at) ==
    LET m == BatchRow(i)
    IN  IF i = fail_at THEN [st EXCEPT !.raised = TRUE]
        ELSE IF MissingTeam(m) \/ MissingScore(m) THEN st
        ELSE CHOOSE next \in
                 {Updated(st, m, r) :
                    r \in {update_elo(DefaultCalculator, st.elo[m.home], st.elo[m.away],
                                      m.home_goals, m.away_goals, NULL)}} : TRUE

\* The passes i .. last of the loop, each on the session the pass before
\* it left.
RECURSIVE BatchPasses(_, _, _, _)
BatchPasses(last, i, st, fail_at) ==
    IF i > last \/ st.raised THEN st
    ELSE CHOOSE out \in {BatchPasses(last, i + 1, next, fail_at) :
                             next \in {BatchStep(st, i, fail_at)}} : TRUE

\* Passes evaluated in one stretch.
Stretch == 10

\* for match in matches: the passes i .. n, taken a stretch at a time.
RECURSIVE BatchLoop(_, _, _, _)
BatchLoop(n, i, st, fail_at) ==
    IF i > n \/ st.raised THEN st
    ELSE CHOOSE out \in
             {BatchLoop(n, i + Stretch, next, fail_at) :
                next \in {BatchPasses(Min(n, i + Stretch - 1), i, st, fail_at)}} : TRUE

\* How the replay ends once its loop has ended in the session out: the
\* except clause rolls back, or the final commit persists every update.
ReplayOutcome(out, fail) ==
    IF out.raised
    THEN [raised |-> TRUE, phase |-> "loop", persisted |-> rollback(out),
          updated_count |-> out.count, trail |-> out.trail]
    ELSE [raised |-> fail = "final", phase |-> "final", persisted |-> out.elo,
          updated_count |-> out.count, trail |-> out.trail]

\* calculate_historical_elos over n rows, with the place where it raises, if
\* it does: in the reset before its commit, in the loop at pass fail_at, or
\* after the final commit while the top teams are logged.
replay_transaction(stored, reset, n, fail, fail_at) ==
    IF reset /\ fail = "reset"
    THEN [raised |-> TRUE, phase |-> "reset", persisted |-> stored, updated_count |-> 0,
          trail |-> <<>>]
    ELSE CHOOSE result \in
             {ReplayOutcome(out, fail) :
                out \in {BatchLoop(n, 1, Transaction(IF reset THEN AllDefault ELSE stored),
                                   IF fail = "loop" THEN fail_at ELSE 0)}} : TRUE

\* ELOCalculator.calculate_historical_elos, as one transaction.
CalculateHistoricalElos ==
    /\ call.fn = "calculate_historical_elos" /\ ~call.done
    /\ call' = Return(replay_transaction(call.args.stored, call.args.reset, call.args.n,
                                         call.args.fail, call.args.fail_at))
    /\ UNCHANGED <<eloVars, formVars, featVars, predVars>>

BatchSizes ==
    {0, 1, COMMIT_EVERY - 1, COMMIT_EVERY, COMMIT_EVERY + 1, MaxBatch}

ReplayCalls ==
    {Pending("calculate_historical_elos",
             [stored |-> stored, reset |-> reset, n |-> n, fail |-> fail, fail_at |-> fail_at]) :
        stored \in InitialRatings, reset \in BOOLEAN, n \in BatchSizes,
        fail \in {"none", "reset", "loop", "final"}, fail_at \in 0 .. MaxBatch}

InitBatch ==
    /\ EloInit /\ elo = AllDefault /\ FormIdle /\ FeatIdle /\ PredIdle
    /\ call \in {c \in ReplayCalls :
                   /\ c.args.fail_at # 0 <=> c.args.fail = "loop"
                   /\ c.args.fail_at <= c.args.n
                   /\ c.args.fail = "reset" => c.args.reset}

NextBatch == CalculateHistoricalElos

SpecBatch == InitBatch /\ [][NextBatch]_vars

\* The ratings the reset (when requested) and the first k updates produce.
RatingsAfterUpdates(k) ==
    IF k = 0 THEN IF call.args.reset THEN AllDefault ELSE call.args.stored
    ELSE call.result.trail[k]

LastCommitted == COMMIT_EVERY * (call.result.updated_count \div COMMIT_EVERY)

AppliedIn(log) == {log[i].m : i \in DOMAIN log}

\* C25: over any sequence of replays and single-match updates, a finished
\* match is applied to the stored ratings at most once: an operation that
\* does not start from a reset applies no match that the operation before it
\* has already applied.
NoMatchAppliedTwice ==
    [][(nOps' > nOps /\ ~(lastOp'.kind = "replay" /\ lastOp'.reset))
         => AppliedIn(runLog') \cap AppliedIn(runLog) = {}]_vars

\* ------------------------------------------------------ restricted replays
NoFilter == ""

\* A matches table over two competitions: team 3 plays in the second only.
LeagueTable ==
    {MatchRow(1, 1, 2, 0, 1, "FINISHED") @@ [league_id |-> "PL", season |-> "2024"],
     MatchRow(2, 1, 2, 3, 0, "FINISHED") @@ [league_id |-> "PL", season |-> "2025"],
     MatchRow(2, 2, 3, 1, 1, "FINISHED") @@ [league_id |-> "CH", season |-> "2024"]}

\* Stored ratings that differ from the default for every team.
RatedTeams ==
    [t \in TeamIds |-> IF t = 1 THEN FromInt(1450) ELSE IF t = 2 THEN FromInt(1850)
                       ELSE FromInt(1600)]

\* query.filter(Match.league_id == league_id) and .filter(Match.season ==
\* season), each applied only for an argument that is not empty.
FilteredMatches(table, league_id, season) ==
    {m \in table : /\ m.status = "FINISHED"
                   /\ league_id # NoFilter => m.league_id = league_id
                   /\ season # NoFilter => m.season = season}

\* ELOCalculator.calculate_historical_elos(league_id, season, reset_elos)
RestrictedReplay ==
    /\ call.fn = "calculate_historical_elos" /\ ~call.done
    /\ "league_id" \in DOMAIN call.args
    /\ \E order \in OrderByDate(FilteredMatches(call.args.table, call.args.league_id,
                                                call.args.season)) :
       \E out \in {ReplayLoop(order, 1,
                              Session(IF call.args.reset_elos THEN AllDefault
                                      ELSE call.args.stored))} :
         call' = Return([elo |-> out.elo, replayed |-> order])
    /\ UNCHANGED <<eloVars, formVars, featVars, predVars>>

RestrictedReplayCalls ==
    {Pending("calculate_historical_elos",
             [stored |-> stored, table |-> table, league_id |-> league_id, season |-> season,
              reset_elos |-> reset_elos]) :
        stored \in {AllDefault, StoredRatings, RatedTeams}, table \in SUBSET LeagueTable,
        league_id \in {NoFilter, "PL", "CH"}, season \in {NoFilter, "2024", "2025"},
        reset_elos \in BOOLEAN}

InitRestricted ==
    /\ EloInit /\ elo = AllDefault /\ FormIdle /\ FeatIdle /\ PredIdle
    /\ call \in RestrictedReplayCalls

NextRestricted == RestrictedReplay

SpecRestricted == InitRestricted /\ [][NextRestricted]_vars

PlaysIn(t, replayed) == \E i \in DOMAIN replayed : t \in {replayed[i].home, replayed[i].away}

FormAndHistoryFeaturesComputed ==
    (features.status = "ok" /\ sourceState.form = "ok" /\ sourceState.h2h = "ok")
    => /\ features.values.home_form_points
            = SourceResult("form", features.home, features.away).points
       /\ features.values.form_diff
            = SourceResult("form", features.home, features.away).points
              - SourceResult("form", features.away, features.home).points
       /\ features.values.h2h_matches_played
            = SourceResult("h2h", features.home, features.away).matches_played

\* ---------------------------------------------------- head-to-head history
\* HeadToHeadAnalyser.__init__(lookback_matches=10)
DEFAULT_LOOKBACK == 10

\* The filter of get_head_to_head's query: finished matches between the two
\* teams, at either venue.
Meetings(table, team_a_id, team_b_id) ==
    {m \in table : /\ m.status = "FINISHED"
                   /\ \/ m.home = team_a_id /\ m.away = team_b_id
                      \/ m.home = team_b_id /\ m.away = team_a_id}

MeetingsBefore(table, team_a_id, team_b_id, date) ==
    {m \in Meetings(table, team_a_id, team_b_id) : m.date < date}

\* query.order_by(Match.date.desc()).limit(limit).all()
h2h_query(table, team_a_id, team_b_id, limit) ==
    {Limit(s, limit) : s \in NewestFirst(Meetings(table, team_a_id, team_b_id))}

a_goals(m, team_a_id) == IF m.home = team_a_id THEN m.home_goals ELSE m.away_goals

b_goals(m, team_a_id) == IF m.home = team_a_id THEN m.away_goals ELSE m.home_goals

_empty_h2h ==
    [matches_played |-> 0, team_a_wins |-> 0, draws |-> 0, team_b_wins |-> 0,
     team_a_goals |-> 0, team_b_goals |-> 0, avg_total_goals |-> 0, btts_rate |-> 0]

\* TeamFeatures.get_head_to_head on the rows its query returned. Adding a
\* missing score to the running totals raises TypeError.
get_head_to_head(rows, team_a_id) ==
    LET n == Len(rows)
        team_a_goals == SumOver(rows, LAMBDA m : a_goals(m, team_a_id))
        team_b_goals == SumOver(rows, LAMBDA m : b_goals(m, team_a_id))
    IN  IF n = 0 THEN Returned(_empty_h2h)
        ELSE IF \E i \in DOMAIN rows : NULL \in {rows[i].home_goals, rows[i].away_goals}
        THEN Raised
        ELSE Returned(
            [matches_played |-> n,
             team_a_wins |-> Count(rows, LAMBDA m : a_goals(m, team_a_id) > b_goals(m, team_a_id)),
             draws |-> Count(rows, LAMBDA m : a_goals(m, team_a_id) = b_goals(m, team_a_id)),
             team_b_wins |-> Count(rows, LAMBDA m : a_goals(m, team_a_id) < b_goals(m, team_a_id)),
             team_a_goals |-> team_a_goals,
             team_b_goals |-> team_b_goals,
             avg_total_goals |-> FDiv(FromInt(team_a_goals + team_b_goals), FromInt(n)),
             btts_rate |-> FDiv(FromInt(Count(rows, LAMBDA m : /\ a_goals(m, team_a_id) > 0
                                                         /\ b_goals(m, team_a_id) > 0)),
                                FromInt(n))])

_empty_features ==
    [matches_played |-> 0, home_wins |-> 0, draws |-> 0, away_wins |-> 0,
     home_win_rate |-> Hundredths(33), away_win_rate |-> Hundredths(33),
     draw_rate |-> Hundredths(34), avg_home_goals |-> Tenths(15), avg_away_goals |-> Tenths(15),
     avg_total_goals |-> Tenths(25), btts_rate |-> Half,
     sufficient_history |-> FALSE, recent_history |-> FALSE]

\* HeadToHeadAnalyser.analyse_h2h on what get_head_to_head gave: the rates
\* and averages of the summary.
h2h_summary(h2h_data) ==
    IF h2h_data.raised \/ h2h_data.value.matches_played = 0 THEN _empty_features
    ELSE LET d == h2h_data.value
             matches_played == d.matches_played
         IN  [matches_played |-> matches_played,
              home_wins |-> d.team_a_wins,
              draws |-> d.draws,
              away_wins |-> d.team_b_wins,
              home_win_rate |-> FDiv(FromInt(d.team_a_wins), FromInt(matches_played)),
              away_win_rate |-> FDiv(FromInt(d.team_b_wins), FromInt(matches_played)),
              draw_rate |-> FDiv(FromInt(d.draws), FromInt(matches_played)),
              avg_home_goals |-> FDiv(FromInt(d.team_a_goals), FromInt(matches_played)),
              avg_away_goals |-> FDiv(FromInt(d.team_b_goals), FromInt(matches_played)),
              avg_total_goals |-> d.avg_total_goals,
              btts_rate |-> d.btts_rate,
              sufficient_history |-> matches_played >= 5,
              recent_history |-> matches_played >= 3]

\* The head-to-head summary of a fixture that is evaluated at match_date:
\* analyse_h2h(home_team_id, away_team_id), which has no date parameter. The
\* result keeps the rows the summary was computed from.
analyse_h2h ==
    /\ call.fn = "analyse_h2h" /\ ~call.done
    /\ \E rows \in h2h_query(call.args.table, call.args.home_team_id,
                             call.args.away_team_id, call.args.lookback) :
       \E h2h_data \in {get_head_to_head(rows, call.args.home_team_id)} :
         call' = Return([summary |-> h2h_summary(h2h_data),
                         counted |-> IF h2h_data.raised THEN {}
                                     ELSE {rows[i] : i \in DOMAIN rows}])
    /\ UNCHANGED <<eloVars, formVars, featVars, predVars>>

\* Meetings at either venue, next to the rows of other fixtures and the
\* incomplete records.
HistoryRows ==
    MatchRows \cup {MatchRow(d, 2, 1, 1, 1, "FINISHED") : d \in Dates}

\* Tables of up to two rows.
HistoryTables == {{}} \cup {{m, n} : m, n \in HistoryRows}

HeadToHeadCalls ==
    {Pending("analyse_h2h",
             [table |-> table, home_team_id |-> f[1], away_team_id |-> f[2],
              match_date |-> match_date, lookback |-> lookback]) :
        table \in HistoryTables, f \in {<<1, 2>>, <<2, 1>>, <<2, 3>>},
        match_date \in 1 .. MaxDate + 1, lookback \in {1, DEFAULT_LOOKBACK}}

InitHistory ==
    /\ EloInit /\ elo = AllDefault /\ FormIdle /\ FeatIdle /\ PredIdle
    /\ call \in HeadToHeadCalls

NextHistory == analyse_h2h

SpecHistory == InitHistory /\ [][NextHistory]_vars

\* C28: the head-to-head summary computed for a fixture with evaluation date
\* d is computed only from meetings of the two teams dated strictly before d.
HeadToHeadUsesEarlierMeetingsOnly ==
    HasReturned("analyse_h2h")
    => /\ \A m \in call.result.counted : m.date < call.args.match_date
       /\ call.result.summary.matches_played
            <= Cardinality(MeetingsBefore(call.args.table, call.args.home_team_id,
                                          call.args.away_team_id, call.args.match_date))

\* ------------------------------------------------------ confidence scores
\* confidence = 1.0, with the list of the factors applied to it so far.
FullConfidence == [confidence |-> Unit, applied |-> <<>>]

\* if situation: confidence *= factor
Adjust(st, situation, reason, factor) ==
    IF situation
    THEN [confidence |-> FMul(st.confidence, factor),
          applied |-> Append(st.applied, [reason |-> reason, factor |-> factor])]
    ELSE st

\* features['home_elo'] == 1500 and features['away_elo'] == 1500
BothOnDefaultElo(feats) == feats.home_elo = FromInt(1500) /\ feats.away_elo = FromInt(1500)

NoHistory(feats) == feats.h2h_matches_played = 0

\* BTTSModel.calculate_confidence(features, home_xg, away_xg)
btts_confidence(feats, home_xg, away_xg) ==
    LET total_xg == FAdd(home_xg, away_xg)
        c1 == Adjust(FullConfidence, BothOnDefaultElo(feats), "default_elo", Tenths(7))
        c2 == Adjust(c1, NoHistory(feats), "no_h2h", Hundredths(85))
        c3 == Adjust(c2, total_xg < Tenths(15), "low_total", Tenths(8))
    IN  Adjust(c3, total_xg > FromInt(4), "high_total", Tenths(9))

\* OverUnderModel.calculate_confidence(features, expected_total, over_prob)
over_under_confidence(feats, expected_total, over_prob) ==
    LET prob_from_midpoint == Abs(FSub(over_prob, Half))
        c1 == IF prob_from_midpoint < Tenths(1)
              THEN Adjust(FullConfidence, TRUE, "coin_flip", Tenths(7))
              ELSE Adjust(FullConfidence, prob_from_midpoint < Hundredths(15), "coin_flip",
                          Hundredths(85))
        c2 == Adjust(c1, expected_total < Tenths(18), "low_total", Tenths(8))
        c3 == Adjust(c2, expected_total > Tenths(45), "high_total", Hundredths(85))
        c4 == Adjust(c3, NoHistory(feats), "no_h2h", Tenths(9))
    IN  Adjust(c4, BothOnDefaultElo(feats), "default_elo", Tenths(8))

\* CleanSheetModel.calculate_confidence(features, home_xga, away_xga)
clean_sheet_confidence(feats, home_xga, away_xga) ==
    LET c1 == Adjust(FullConfidence, home_xga > FromInt(3) \/ away_xga > FromInt(3),
                     "high_xga", Tenths(8))
        c2 == Adjust(c1, home_xga < Half \/ away_xga < Half, "low_xga", Hundredths(85))
        c3 == Adjust(c2, BothOnDefaultElo(feats), "default_elo", Hundredths(75))
        c4 == Adjust(c3, NoHistory(feats), "no_h2h", Tenths(9))
        c5 == Adjust(c4, Get(feats, "home_defence_strength", Unit) < Tenths(8),
                     "strong_defence", Hundredths(105))
        c6 == Adjust(c5, Get(feats, "away_defence_strength", Unit) < Tenths(8),
                     "strong_defence", Hundredths(105))
    IN  [c6 EXCEPT !.confidence = Min(Hundredths(95), c6.confidence)]

\* calculate_confidence of the market predictor called; first and second
\* are the two numbers it is given after the features.
calculate_confidence ==
    /\ call.fn = "calculate_confidence" /\ ~call.done
    /\ call' = Return(CASE call.args.model = "btts" ->
                             btts_confidence(call.args.features, call.args.first,
                                             call.args.second)
                        [] call.args.model = "over_under" ->
                             over_under_confidence(call.args.features, call.args.first,
                                                   call.args.second)
                        [] call.args.model = "clean_sheets" ->
                             clean_sheet_confidence(call.args.features, call.args.first,
                                                    call.args.second))
    /\ UNCHANGED <<eloVars, formVars, featVars, predVars>>

RatedOrNot == {FromInt(1500), FromInt(1600)}

ConfidenceFeatures ==
    [home_elo : RatedOrNot, away_elo : RatedOrNot, h2h_matches_played : {0, 3}]

\* With the defence strengths the clean sheet predictor looks up; the third
\* dictionary lacks them.
DefenceFeatures ==
    {f @@ d : f \in ConfidenceFeatures,
              d \in {[home_defence_strength |-> Half, away_defence_strength |-> Half],
                     [home_defence_strength |-> Unit, away_defence_strength |-> Half],
                     <<>>}}

\* Expected goals of one side.
SideGoals == {Tenths(4), Tenths(8), Unit, Tenths(25), Tenths(35)}

ConfidenceCalls ==
    {Pending("calculate_confidence",
             [model |-> "btts", features |-> f, first |-> home_xg, second |-> away_xg]) :
        f \in ConfidenceFeatures, home_xg \in SideGoals, away_xg \in SideGoals}
    \cup
    {Pending("calculate_confidence",
             [model |-> "over_under", features |-> f, first |-> expected_total,
              second |-> over_prob]) :
        f \in ConfidenceFeatures,
        expected_total \in {Tenths(16), Tenths(18), FromInt(3), Tenths(45), Tenths(46)},
        over_prob \in {Hundredths(45), Hundredths(62), Tenths(8)}}
    \cup
    {Pending("calculate_confidence",
             [model |-> "clean_sheets", features |-> f, first |-> home_xga,
              second |-> away_xga]) :
        f \in DefenceFeatures, home_xga \in SideGoals, away_xga \in SideGoals}

InitConfidence ==
    /\ EloInit /\ elo = AllDefault /\ FormIdle /\ FeatIdle /\ PredIdle
    /\ call \in ConfidenceCalls

NextConfidence == calculate_confidence

SpecConfidence == InitConfidence /\ [][NextConfidence]_vars

\* The expected-goal total of the fixture the confidence is computed for.
ExpectedTotal ==
    IF call.args.model = "over_under" THEN call.args.first
    ELSE FAdd(call.args.first, call.args.second)

Penalised(reason) ==
    \E i \in DOMAIN call.result.applied : /\ call.result.applied[i].reason = reason
                                          /\ call.result.applied[i].factor < Unit

RECURSIVE ProductOf(_, _)
ProductOf(applied, n) ==
    IF n = 0 THEN Unit ELSE FMul(ProductOf(applied, n - 1), applied[n].factor)

\* C21: in every market predictor the confidence starts at 1.0 and is changed
\* only by multiplication with factors that are at most 1, and a penalty is
\* applied when a participant is on the default rating, when there is no
\* head-to-head history, when the expected-goal total is below 1.8 and when
\* it is above 4.5.
ConfidenceOnlyPenalised ==
    HasReturned("calculate_confidence")
    => /\ \A i \in DOMAIN call.result.applied : call.result.applied[i].factor <= Unit
       /\ call.result.confidence = ProductOf(call.result.applied, Len(call.result.applied))
       /\ FromInt(1500) \in {call.args.features.home_elo, call.args.features.away_elo}
          => Penalised("default_elo")
       /\ call.args.features.h2h_matches_played = 0 => Penalised("no_h2h")
       /\ ExpectedTotal < Tenths(18) => Penalised("low_total")
       /\ ExpectedTotal > Tenths(45) => Penalised("high_total")

\* ------------------------------------------------- strengths and baselines
DivisionByZero == Raised

\* numerator / denominator on numbers that are not negative: ZeroDivisionError
\* when the denominator is zero.
Ratio(numerator, denominator) ==
    IF denominator = 0 THEN DivisionByZero ELSE Returned(FDiv(numerator, denominator))

\* helpers.safe_divide(numerator, denominator, default)
safe_divide(numerator, denominator, default) ==
    IF denominator = 0 THEN Returned(default) ELSE Ratio(numerator, denominator)

\* TeamFeatures.get_team_matches(team_id, venue, before_date), newest first;
\* every row lies within the lookback period.
team_feature_matches(table, team_id, venue, before_date) ==
    NewestFirst({m \in table : /\ m.status = "FINISHED"
                               /\ m.home = team_id \/ m.away = team_id
                               /\ venue = "home" => m.home = team_id
                               /\ venue = "away" => m.away = team_id
                               /\ m.date < before_date})

_default_league_averages ==
    [goals_per_game |-> Tenths(28), home_goals_per_game |-> Tenths(15),
     away_goals_per_game |-> Tenths(13)]

\* TeamFeatures.calculate_league_averages(league_id, before_date): the goal
\* averages the strengths are measured against.
calculate_league_averages(table, league_id, before_date) ==
    LET rows == CHOOSE s \in Listings({m \in table : /\ m.status = "FINISHED"
                                                     /\ m.league_id = league_id
                                                     /\ m.date < before_date}) : TRUE
        num_matches == FromInt(Len(rows))
        home_goals == SumOver(rows, LAMBDA m : m.home_goals)
        away_goals == SumOver(rows, LAMBDA m : m.away_goals)
    IN  IF Len(rows) = 0 THEN _default_league_averages
        ELSE [goals_per_game |-> FDiv(FromInt(home_goals + away_goals), num_matches),
              home_goals_per_game |-> FDiv(FromInt(home_goals), num_matches),
              away_goals_per_game |-> FDiv(FromInt(away_goals), num_matches)]

\* TeamFeatures._empty_features
empty_team_features ==
    [games_played |-> 0, goals_for |-> 0, goals_against |-> 0, goals_for_per_game |-> 0,
     goals_against_per_game |-> 0, attack_strength |-> Unit, defence_strength |-> Unit,
     clean_sheets |-> 0, clean_sheet_rate |-> 0, failed_to_score |-> 0,
     failed_to_score_rate |-> 0, avg_goals_per_match |-> 0, high_scoring_rate |-> 0,
     btts_rate |-> 0, days_since_last_match |-> 0]

\* The baselines a team's scoring and conceding rates are divided by.
Baselines(venue, league_avg) ==
    IF venue = "home"
    THEN [attack |-> league_avg.home_goals_per_game, defence |-> league_avg.away_goals_per_game]
    ELSE IF venue = "away"
    THEN [attack |-> league_avg.away_goals_per_game, defence |-> league_avg.home_goals_per_game]
    ELSE [attack |-> FDiv(league_avg.goals_per_game, FromInt(2)),
          defence |-> FDiv(league_avg.goals_per_game, FromInt(2))]

\* TeamFeatures.calculate_team_features on the rows get_team_matches gave.
\* The first division that fails ends the call.
team_features(rows, team_id, venue, before_date, league_avg, min_games) ==
    LET gf(m) == IF m.home = team_id THEN m.home_goals ELSE m.away_goals
        ga(m) == IF m.home = team_id THEN m.away_goals ELSE m.home_goals
        goals_for == SumOver(rows, gf)
        goals_against == SumOver(rows, ga)
        total_goals_in_matches == goals_for + goals_against
        games_played == FromInt(Len(rows))
        goals_for_per_game == Ratio(FromInt(goals_for), games_played)
        goals_against_per_game == Ratio(FromInt(goals_against), games_played)
        base == Baselines(venue, league_avg)
        PerGame(n) == FDiv(FromInt(n), games_played)
    IN  IF Len(rows) < min_games THEN Returned(empty_team_features)
        ELSE IF goals_for_per_game.raised THEN DivisionByZero
        ELSE LET attack_strength == Ratio(goals_for_per_game.value, base.attack)
                 defence_strength == Ratio(goals_against_per_game.value, base.defence)
                 clean_sheets == Count(rows, LAMBDA m : ga(m) = 0)
                 failed_to_score == Count(rows, LAMBDA m : gf(m) = 0)
             IN  IF attack_strength.raised \/ defence_strength.raised THEN DivisionByZero
                 ELSE Returned(
                     [games_played |-> Len(rows),
                      goals_for |-> goals_for,
                      goals_against |-> goals_against,
                      goals_for_per_game |-> goals_for_per_game.value,
                      goals_against_per_game |-> goals_against_per_game.value,
                      attack_strength |-> attack_strength.value,
                      defence_strength |-> defence_strength.value,
                      clean_sheets |-> clean_sheets,
                      clean_sheet_rate |-> PerGame(clean_sheets),
                      failed_to_score |-> failed_to_score,
                      failed_to_score_rate |-> PerGame(failed_to_score),
                      avg_goals_per_match |-> PerGame(total_goals_in_matches),
                      high_scoring_rate |->
                          PerGame(Count(rows, LAMBDA m : m.home_goals + m.away_goals > 2)),
                      btts_rate |->
                          PerGame(Count(rows, LAMBDA m : m.home_goals > 0 /\ m.away_goals > 0)),
                      days_since_last_match |-> before_date - rows[1].date])

\* TeamFeatures.calculate_team_features(team_id, venue, before_date)
calculate_team_features ==
    /\ call.fn = "calculate_team_features" /\ ~call.done
    /\ \E rows \in team_feature_matches(call.args.table, call.args.team_id, call.args.venue,
                                    call.args.before_date) :
         call' = Return(team_features(rows, call.args.team_id, call.args.venue,
                                      call.args.before_date,
                                      calculate_league_averages(call.args.table, "PL",
                                                                call.args.before_date),
                                      call.args.min_games))
    /\ UNCHANGED <<eloVars, formVars, featVars, predVars>>

SafeDivide ==
    /\ call.fn = "safe_divide" /\ ~call.done
    /\ call' = Return(safe_divide(call.args.numerator, call.args.denominator,
                                  call.args.default))
    /\ UNCHANGED <<eloVars, formVars, featVars, predVars>>

\* Finished matches of two competitions, goalless ones among them.
StrengthRows ==
    {MatchRow(d, f[1], f[2], g[1], g[2], "FINISHED") @@ [league_id |-> league_id] :
        d \in Dates, f \in {<<1, 2>>, <<2, 1>>}, g \in Scores \cup {<<0, 0>>},
        league_id \in {"PL", "CH"}}

StrengthTables == {{}} \cup {{m, n} : m, n \in StrengthRows}

\* min_games of the constructor: none required, one, or two.
MinGames == {0, 1, 2}

StrengthCalls ==
    {Pending("calculate_team_features",
             [table |-> table, team_id |-> team_id, venue |-> venue,
              before_date |-> MaxDate + 1, min_games |-> min_games]) :
        table \in StrengthTables, team_id \in {1, 3}, venue \in {"home", "away", "overall"},
        min_games \in MinGames}
    \cup
    {Pending("safe_divide", [numerator |-> n, denominator |-> d, default |-> default]) :
        n \in {0, Unit, FromInt(3)}, d \in {0, Unit, Tenths(25)}, default \in {0, Half, Unit}}

InitStrength ==
    /\ EloInit /\ elo = AllDefault /\ FormIdle /\ FeatIdle /\ PredIdle
    /\ call \in StrengthCalls

NextStrength == calculate_team_features \/ SafeDivide

SpecStrength == InitStrength /\ [][NextStrength]_vars

\* C22: no ratio raises on a zero denominator (no games played, a league
\* baseline of zero goals per game): the call returns, and with no games
\* played it returns the neutral defaults.
NoRatioRaisesOnZero ==
    (HasReturned("calculate_team_features") \/ HasReturned("safe_divide"))
    => /\ ~call.result.raised
       /\ (call.fn = "calculate_team_features" /\ call.result.value.games_played = 0)
          => call.result.value = empty_team_features

====
